---- MODULE Spec2Model ----
(***************************************************************************)
(* A model of the shopify-collections-bot reconciliation code:             *)
(*   - the rule-set differ (src/shopify/collectionsApi.ts),                *)
(*   - the collection and menu sync planners and executors                 *)
(*     (wyn/collections/collectionsSync.ts, wyn/menus/menusSync.ts),       *)
(*   - the command line programs that drive them (src/cli/*.ts),           *)
(*   - the redirect upsert and chain consolidation (shopify/redirectsApi). *)
(*                                                                         *)
(* Two specifications:                                                     *)
(*   SpecRules  the pure rule-set functions applied to bounded inputs      *)
(*   Spec       one run of a command line program against a remote store   *)
(***************************************************************************)
EXTENDS Integers, Sequences, FiniteSets, TLC

VARIABLES
    \* ---- rule-set differ (SpecRules) ----
    live,        \* ShopifyCollection['ruleSet'] handed to compareRuleSets
    declared,    \* CollectionConfigEntry (type, smart_rules) handed to it
    result,      \* the last value compareRuleSets returned
    first,       \* the value compareRuleSets returned for the inputs as first given
    built,       \* live was produced by buildCollectionInput(declared)
    rpc,         \* "input" | "compared"
    \* ---- menu differ (SpecMenuDiff) ----
    currentMenu, \* what getMenuByHandle(handle) returns to compareMenuWithConfig
    configMenu,  \* the MenuConfigEntry handed to it
    diffIds,     \* the collectionIdByHandle handed to it
    comparison,  \* the MenuComparisonResult it returned
    dpc,         \* "input" | "compared"
    \* ---- tag audit (SpecTags) ----
    product,     \* the ProductTagData handed to validateProductTags
    errors,      \* the TagAuditError[] it returned
    before,      \* the TagAuditError[] it returned before the product was retagged
    tpc,         \* "input" | "validated" | "retagged" | "revalidated"
    \* ---- redirect upserts (SpecUpsert) ----
    urlRedirects, \* the store's URL redirects
    lastUpsert,   \* the last upsertUrlRedirect call: its arguments, its answer, the table before
    upserted,     \* history: path -> the target of the last upsert of it that returned
    upserts,      \* history: how many upsertUrlRedirect calls were made
    \* ---- one run of a command line program (Spec) ----
    cli,               \* which program runs
    opts,              \* its command line options
    cfgCollections,    \* CollectionsConfig.collections (validated)
    cfgMenus,          \* MenusConfig.menus (validated)
    cfgCleanup,        \* MenusConfig.cleanup_menus
    store0,            \* history: the store's collections and menus when the run began
    remoteCollections, \* the store's collections, by handle
    remoteMenus,       \* the store's menus, by handle
    redirects,         \* the store's URL redirects, as getUrlRedirects lists them
    pc,                \* position of main()
    idx,               \* index of the running for-loop
    exitCode,          \* process.exit code, -1 while running
    cplans,            \* CollectionSyncPlan[]
    allHandles,        \* [...allHandles] of planMenusSync
    idByHandle,        \* resolveCollectionHandles: handle -> id
    missing,           \* resolveCollectionHandles: missing handles
    mplans,            \* MenuSyncPlan[]
    results,           \* the executor's result lists
    snapshot,          \* allRedirects of consolidateRedirectChains
    toCleanup,         \* menusToCleanup of auto-optimize
    chainReport,       \* { consolidated, chains } of consolidateRedirectChains
    runNo,             \* history: how many times the program was started on this store
    mutations,         \* history: every mutating call issued to the store
    failedLookups,     \* history: the live lookups that threw
    faults             \* history: how many remote calls have thrown

ruleVars == <<live, declared, result, first, built, rpc>>

configVars == <<cli, opts, cfgCollections, cfgMenus, cfgCleanup, store0>>

storeVars == <<remoteCollections, remoteMenus, redirects>>

runVars == <<pc, idx, exitCode, cplans, allHandles, idByHandle, missing, mplans,
             results, snapshot, toCleanup, chainReport, runNo, mutations, failedLookups,
             faults>>

syncVars == <<configVars, storeVars, runVars>>

diffVars == <<currentMenu, configMenu, diffIds, comparison, dpc>>

tagVars == <<product, errors, before, tpc>>

upsertVars == <<urlRedirects, lastUpsert, upserted, upserts>>

\* the variables of the functions exercised on their own
pureVars == <<ruleVars, diffVars, tagVars, upsertVars>>

\* what each of those specifications leaves alone
ruleFrame == <<syncVars, diffVars, tagVars, upsertVars>>

diffFrame == <<syncVars, ruleVars, tagVars, upsertVars>>

tagFrame == <<syncVars, ruleVars, diffVars, upsertVars>>

upsertFrame == <<syncVars, ruleVars, diffVars, tagVars>>

vars == <<pureVars, syncVars>>

-----------------------------------------------------------------------------
(* Bounds *)

\* longest rule list / condition list enumerated
MaxRules == 2

-----------------------------------------------------------------------------
(* Generic helpers *)

SeqsUpTo(S, n) == UNION {[1..k -> S] : k \in 0..n}

Range(s) == {s[k] : k \in DOMAIN s}

\* number of occurrences of x in the list s
CountIn(s, x) == Cardinality({k \in DOMAIN s : s[k] = x})

\* equality of two lists as unordered multisets
SameMultiset(s, t) ==
    \A x \in Range(s) \cup Range(t) : CountIn(s, x) = CountIn(t, x)

\* the list s reordered by the permutation p of its indices
Reorder(s, p) == [k \in DOMAIN s |-> s[p[k]]]

-----------------------------------------------------------------------------
(* Types (types.ts) *)

\* SmartRuleCondition values enumerated in the declared configuration
Conditions ==
    { [field |-> "TAG",          relation |-> "EQUALS", value |-> "family:glass-bong"],
      [field |-> "TAG",          relation |-> "EQUALS", value |-> "family:silicone-bong"],
      [field |-> "PRODUCT_TYPE", relation |-> "EQUALS", value |-> "Bong"] }

\* rules as the store returns them (column / relation / condition)
LiveRules ==
    { [column |-> "TAG",  relation |-> "EQUALS", condition |-> "family:glass-bong"],
      [column |-> "TAG",  relation |-> "EQUALS", condition |-> "family:silicone-bong"],
      [column |-> "TYPE", relation |-> "EQUALS", condition |-> "Bong"] }

\* ShopifyCollection.ruleSet is optional: present = FALSE is `undefined`
NoRuleSet == [present |-> FALSE, appliedDisjunctively |-> FALSE, rules |-> <<>>]

RuleSet(disj, rules) ==
    [present |-> TRUE, appliedDisjunctively |-> disj, rules |-> rules]

\* CollectionConfigEntry.smart_rules; compareRuleSets also accepts it missing
NoSmartRules == [present |-> FALSE, appliedDisjunctively |-> FALSE, conditions |-> <<>>]

SmartRules(disj, conds) ==
    [present |-> TRUE, appliedDisjunctively |-> disj, conditions |-> conds]

-----------------------------------------------------------------------------
(* Type mappings (collectionsApi.ts) *)

mapFieldToShopifyColumn(field) ==
    CASE field = "TAG" -> "TAG"
      [] field = "VENDOR" -> "VENDOR"
      [] field = "PRODUCT_TYPE" -> "TYPE"
      [] field = "VARIANT_PRICE" -> "VARIANT_PRICE"
      [] field = "VARIANT_COMPARE_AT_PRICE" -> "VARIANT_COMPARE_AT_PRICE"
      [] field = "VARIANT_WEIGHT" -> "VARIANT_WEIGHT"
      [] field = "VARIANT_INVENTORY" -> "VARIANT_INVENTORY_QTY"
      [] field = "VARIANT_TITLE" -> "VARIANT_TITLE"
      [] OTHER -> field

mapRelationToShopify(relation) ==
    CASE relation \in {"EQUALS", "NOT_EQUALS", "GREATER_THAN", "LESS_THAN",
                       "STARTS_WITH", "ENDS_WITH", "CONTAINS", "NOT_CONTAINS"} -> relation
      [] OTHER -> relation

\* sortOrder "" is `undefined`
mapSortOrderToShopify(sortOrder) ==
    IF sortOrder = "" THEN ""
    ELSE CASE sortOrder \in {"ALPHA_ASC", "ALPHA_DESC", "BEST_SELLING", "CREATED",
                             "CREATED_DESC", "MANUAL", "PRICE_ASC", "PRICE_DESC"} -> sortOrder
           [] OTHER -> sortOrder

-----------------------------------------------------------------------------
(* buildCollectionInput: the ruleSet part of the CollectionInput *)

BuildRule(condition) ==
    [column    |-> mapFieldToShopifyColumn(condition.field),
     relation  |-> mapRelationToShopify(condition.relation),
     condition |-> condition.value]

buildRuleSetInput(config) ==
    IF config.type = "SMART" /\ config.smart_rules.present
    THEN RuleSet(config.smart_rules.appliedDisjunctively,
                 [k \in DOMAIN config.smart_rules.conditions |->
                     BuildRule(config.smart_rules.conditions[k])])
    ELSE NoRuleSet

-----------------------------------------------------------------------------
(* compareRuleSets *)

\* `${r.column}|${r.relation}|${r.condition}`
ExistingKey(r) == <<r.column, "|", r.relation, "|", r.condition>>

\* `${mapFieldToShopifyColumn(c.field)}|${mapRelationToShopify(c.relation)}|${c.value}`
ConfigKey(c) ==
    <<mapFieldToShopifyColumn(c.field), "|", mapRelationToShopify(c.relation), "|", c.value>>

\* a differ that forgets the appliedDisjunctively comparison
compareRuleSets_IgnoreDisjunctive(existing, config) ==
    IF ~existing.present
         /\ (~config.smart_rules.present \/ Len(config.smart_rules.conditions) = 0)
    THEN TRUE
    ELSE IF ~existing.present \/ ~config.smart_rules.present
    THEN FALSE
    ELSE IF Len(existing.rules) # Len(config.smart_rules.conditions)
    THEN FALSE
    ELSE \A c \in Range(config.smart_rules.conditions) :
             ConfigKey(c) \in {ExistingKey(r) : r \in Range(existing.rules)}

\* a differ that compares the two lists position by position
compareRuleSets_Positional(existing, config) ==
    IF ~existing.present
         /\ (~config.smart_rules.present \/ Len(config.smart_rules.conditions) = 0)
    THEN TRUE
    ELSE IF ~existing.present \/ ~config.smart_rules.present
    THEN FALSE
    ELSE IF existing.appliedDisjunctively # config.smart_rules.appliedDisjunctively
    THEN FALSE
    ELSE IF Len(existing.rules) # Len(config.smart_rules.conditions)
    THEN FALSE
    ELSE \A k \in DOMAIN existing.rules :
             ConfigKey(config.smart_rules.conditions[k]) = ExistingKey(existing.rules[k])

compareRuleSets(existing, config) ==
    \* If both have no rules, they match
    IF ~existing.present
         /\ (~config.smart_rules.present \/ Len(config.smart_rules.conditions) = 0)
    THEN TRUE
    \* If one has rules and the other doesn't, they don't match
    ELSE IF ~existing.present \/ ~config.smart_rules.present
    THEN FALSE
    \* Compare disjunctive setting
    ELSE IF existing.appliedDisjunctively # config.smart_rules.appliedDisjunctively
    THEN FALSE
    \* Compare rule counts
    ELSE IF Len(existing.rules) # Len(config.smart_rules.conditions)
    THEN FALSE
    \* Check if all config rules exist in existing
    ELSE LET existingSet == {ExistingKey(r) : r \in Range(existing.rules)}
             configSet   == {ConfigKey(c) : c \in Range(config.smart_rules.conditions)}
         IN  \A rule \in configSet : rule \in existingSet

-----------------------------------------------------------------------------
(* Declared configuration (types.ts, config/*.ts) *)

CollHandles == {"bongs", "rigs"}

MenuHandles == {"main-menu", "footer"}

\* CollectionConfigEntry; sort_order "" is `undefined`
CollectionEntry(handle, title, sortOrder, type, smartRules) ==
    [handle |-> handle, title |-> title, sort_order |-> sortOrder,
     type |-> type, smart_rules |-> smartRules]

GlassBong == [field |-> "TAG", relation |-> "EQUALS", value |-> "family:glass-bong"]

SiliconeBong == [field |-> "TAG", relation |-> "EQUALS", value |-> "family:silicone-bong"]

TypeBong == [field |-> "PRODUCT_TYPE", relation |-> "EQUALS", value |-> "Bong"]

\* validateCollectionEntry looks at smart_rules of SMART entries only: a
\* MANUAL entry may carry them
ManualWithRules ==
    << CollectionEntry("bongs", "Bongs", "", "MANUAL",
                       SmartRules(TRUE, <<GlassBong, SiliconeBong>>)),
       CollectionEntry("rigs", "Rigs", "", "SMART", SmartRules(FALSE, <<TypeBong>>)) >>

\* the collections configurations enumerated: loadCollectionsConfig accepts
\* them (unique handles, SMART entries with at least one valid condition)
CollectionsConfigs ==
    { << CollectionEntry("bongs", "Bongs", so, "SMART", SmartRules(TRUE, conds)),
         CollectionEntry("rigs", "Rigs", "", "SMART",
                         SmartRules(FALSE, <<TypeBong>>)) >>
      : so \in {"", "BEST_SELLING"},
        conds \in {<<GlassBong, SiliconeBong>>, <<GlassBong, GlassBong>>} }
      \cup {ManualWithRules}

\* MenuItemConfigEntry; target_collection_handle "" and url <<>> are
\* `undefined`; a url is the list of its path segments
MenuItem(title, type, handle, url, children) ==
    [title |-> title, type |-> type, target_collection_handle |-> handle,
     url |-> url, children |-> children]

MenuEntry(handle, title, items) == [handle |-> handle, title |-> title, items |-> items]

MainMenuNested ==
    << MenuItem("Shop", "LINK", "", <<"collections", "all">>,
                << MenuItem("Bongs", "COLLECTION", "bongs", <<>>, <<>>) >>) >>

MainMenuBoth ==
    << MenuItem("Bongs", "COLLECTION", "bongs", <<>>, <<>>),
       MenuItem("More", "LINK", "", <<"pages", "more">>,
                << MenuItem("Rigs", "COLLECTION", "rigs", <<>>, <<>>) >>) >>

FooterRigs == << MenuItem("Rigs", "COLLECTION", "rigs", <<>>, <<>>) >>

FooterLinks == << MenuItem("About", "LINK", "", <<"pages", "about">>, <<>>) >>

\* the menus configurations enumerated: loadMenusConfig accepts them (a
\* main-menu, every COLLECTION item targets a configured collection)
MenusConfigs ==
    { << MenuEntry("main-menu", "Main menu", m), MenuEntry("footer", "Footer", f) >>
      : m \in {MainMenuNested, MainMenuBoth}, f \in {FooterRigs, FooterLinks} }

\* String.prototype.toLowerCase on the handles and titles enumerated
ToLowerCase(s) ==
    CASE s = "Old-Menu" -> "old-menu"
      [] s = "Bongs" -> "bongs"
      [] s = "Pipes" -> "pipes"
      [] s = "Rigs" -> "rigs"
      [] s = "Shop" -> "shop"
      [] s = "More" -> "more"
      [] s = "Sale" -> "sale"
      [] s = "About" -> "about"
      [] OTHER -> s

-----------------------------------------------------------------------------
(* Remote store (types.ts: ShopifyCollection, ShopifyMenu, UrlRedirect) *)

CollectionId(handle) ==
    CASE handle = "bongs" -> "gid://shopify/Collection/1"
      [] handle = "rigs" -> "gid://shopify/Collection/2"
      [] handle = "all" -> "gid://shopify/Collection/3"
      [] handle = "shop-all-what-you-need" -> "gid://shopify/Collection/4"
      [] OTHER -> "gid://shopify/Collection/9"

MenuId(handle) ==
    CASE handle = "main-menu" -> "gid://shopify/Menu/1"
      [] handle = "footer" -> "gid://shopify/Menu/2"
      [] handle = "old-menu" -> "gid://shopify/Menu/3"
      [] handle = "sidebar" -> "gid://shopify/Menu/4"
      [] OTHER -> "gid://shopify/Menu/9"

\* collectionByHandle returned null
NoCollection ==
    [exists |-> FALSE, id |-> "", title |-> "", sortOrder |-> "", ruleSet |-> NoRuleSet]

\* the sort order the store gives a collection created without one
StoreDefaultSortOrder == "BEST_SELLING"

\* the collection the store holds after collectionCreate(buildCollectionInput(c))
StoredCollection(c) ==
    [exists |-> TRUE, id |-> CollectionId(c.handle), title |-> c.title,
     sortOrder |-> IF mapSortOrderToShopify(c.sort_order) # ""
                   THEN mapSortOrderToShopify(c.sort_order)
                   ELSE StoreDefaultSortOrder,
     ruleSet |-> buildRuleSetInput(c)]

\* the live states enumerated for the collection declared as c
LiveCollectionsFor(c) ==
    LET s == StoredCollection(c) IN
    IF ~s.ruleSet.present
    THEN { NoCollection, s, [s EXCEPT !.title = "Old title"] }
    ELSE
    { NoCollection,
      s,
      [s EXCEPT !.ruleSet.appliedDisjunctively = ~s.ruleSet.appliedDisjunctively],
      [s EXCEPT !.ruleSet.rules = <<BuildRule(GlassBong), BuildRule(SiliconeBong)>>],
      [s EXCEPT !.title = "Old title"],
      [s EXCEPT !.sortOrder = "MANUAL"],
      [s EXCEPT !.ruleSet = NoRuleSet] }

\* ShopifyMenuItem
LiveItem(title, type, resourceId, url, items) ==
    [title |-> title, type |-> type, resourceId |-> resourceId, url |-> url, items |-> items]

NoMenu == [exists |-> FALSE, id |-> "", items |-> <<>>]

\* a live main menu from before the restructuring
OldMenuItems ==
    << LiveItem("Bongs", "COLLECTION", CollectionId("bongs"), <<"collections", "bongs">>, <<>>),
       LiveItem("Pipes", "COLLECTION", CollectionId("pipes"), <<"collections", "pipes">>, <<>>) >>

\* the store's collections that no configuration names
OtherCollections ==
    [h \in {"pipes"} |->
        [exists |-> TRUE, id |-> CollectionId(h), title |-> "Pipes", sortOrder |-> "MANUAL",
         ruleSet |-> NoRuleSet]]

\* the store's menus that config.menus does not name
OtherMenus ==
    [h \in {"old-menu", "sidebar"} |->
        [exists |-> TRUE, id |-> MenuId(h), items |-> OldMenuItems]]

\* UrlRedirect tables enumerated
RedirectTables ==
    { <<>>,
      << [id |-> 1, path |-> <<"collections", "pipes">>, target |-> <<"collections", "old">>],
         [id |-> 2, path |-> <<"collections", "old">>,   target |-> <<"collections", "all">>] >>,
      << [id |-> 1, path |-> <<"collections", "pipes">>, target |-> <<"collections", "all">>] >> }

\* {A -> B, B -> C, C -> D}
ThreeHopChain ==
    << [id |-> 1, path |-> <<"collections", "pipes">>, target |-> <<"collections", "old">>],
       [id |-> 2, path |-> <<"collections", "old">>,   target |-> <<"collections", "older">>],
       [id |-> 3, path |-> <<"collections", "older">>, target |-> <<"collections", "all">>] >>

\* {A -> B, B -> A}
TwoCycle ==
    << [id |-> 1, path |-> <<"collections", "pipes">>, target |-> <<"collections", "old">>],
       [id |-> 2, path |-> <<"collections", "old">>,   target |-> <<"collections", "pipes">>] >>

\* the tables the redirects audit is run on
AuditedTables == RedirectTables \cup {ThreeHopChain, TwoCycle}

-----------------------------------------------------------------------------
(* menusApi.ts *)

mapMenuItemType(type) ==
    CASE type = "LINK" -> "HTTP"
      [] OTHER -> type

RECURSIVE buildMenuItemsInput(_, _)
\* the item tree sent to menuCreate / menuUpdate; the store answers it with
\* the url of each COLLECTION item resolved from its resourceId
buildMenuItemsInput(items, ids) ==
    [k \in DOMAIN items |->
        LET item == items[k] IN
        LiveItem(item.title,
                 mapMenuItemType(item.type),
                 IF item.type = "COLLECTION" /\ item.target_collection_handle # ""
                      /\ item.target_collection_handle \in DOMAIN ids
                 THEN ids[item.target_collection_handle] ELSE "",
                 IF item.type = "LINK" /\ item.url # <<>> THEN item.url
                 ELSE IF item.type = "COLLECTION" /\ item.target_collection_handle \in DOMAIN ids
                 THEN <<"collections", item.target_collection_handle>>
                 ELSE <<>>,
                 buildMenuItemsInput(item.children, ids))]

RECURSIVE countShopifyMenuItems(_)
countShopifyMenuItems(items) ==
    IF items = <<>> THEN 0
    ELSE 1 + countShopifyMenuItems(Head(items).items) + countShopifyMenuItems(Tail(items))

\* every configured collection with its id
AllIds == [h \in CollHandles |-> CollectionId(h)]

\* the menu the store holds after a create or update from the entry m
StoredMenu(m) ==
    [exists |-> TRUE, id |-> MenuId(m.handle), items |-> buildMenuItemsInput(m.items, AllIds)]

\* a live footer that links the collections the programs redirect to by default
CatchAllItems ==
    << LiveItem("All", "COLLECTION", CollectionId("all"), <<"collections", "all">>, <<>>),
       LiveItem("Shop all", "COLLECTION", CollectionId("shop-all-what-you-need"),
                <<"collections", "shop-all-what-you-need">>, <<>>) >>

\* the live states enumerated for the menu declared as m
LiveMenusFor(m) ==
    { NoMenu, StoredMenu(m), [exists |-> TRUE, id |-> MenuId(m.handle), items |-> OldMenuItems] }
      \cup (IF m.handle = "footer"
            THEN {[exists |-> TRUE, id |-> MenuId(m.handle), items |-> CatchAllItems]}
            ELSE {})

-----------------------------------------------------------------------------
(* config/menusConfig.ts *)

\* [...new Set(handles)]: first occurrences, in order
Dedupe(s) ==
    LET keep == {k \in DOMAIN s : \A j \in 1..(k - 1) : s[j] # s[k]}
        pos(k) == Cardinality({j \in keep : j <= k})
    IN  [n \in 1..Cardinality(keep) |-> s[CHOOSE k \in keep : pos(k) = n]]

RECURSIVE TraverseHandles(_)
\* traverse() of collectTargetHandles: the item's handle, then its children's
TraverseHandles(items) ==
    IF items = <<>> THEN <<>>
    ELSE LET item == Head(items) IN
         (IF item.target_collection_handle # "" THEN <<item.target_collection_handle>> ELSE <<>>)
           \o TraverseHandles(item.children)
           \o TraverseHandles(Tail(items))

\* a collector that looks at the top-level items only
collectTargetHandles_TopLevel(items) ==
    Dedupe(TraverseHandles([k \in DOMAIN items |-> [items[k] EXCEPT !.children = <<>>]]))

collectTargetHandles(items) ==
    Dedupe(TraverseHandles(items))

RECURSIVE countMenuItems(_)
countMenuItems(items) ==
    IF items = <<>> THEN 0
    ELSE 1 + countMenuItems(Head(items).children) + countMenuItems(Tail(items))

-----------------------------------------------------------------------------
(* determineCollectionChanges (collectionsApi.ts) *)

\* one entry of a plan's `changes`; kind is the text before the first value
Change(kind, from, to) == [kind |-> kind, from |-> from, to |-> to]

RuleSetDiffers == Change("Rule set differs", "", "")

determineCollectionChanges(existing, config) ==
    (IF existing.title # config.title
     THEN <<Change("Title", existing.title, config.title)>> ELSE <<>>)
      \o (IF mapSortOrderToShopify(config.sort_order) # ""
             /\ existing.sortOrder # mapSortOrderToShopify(config.sort_order)
          THEN <<Change("Sort order", existing.sortOrder,
                        mapSortOrderToShopify(config.sort_order))>>
          ELSE <<>>)
      \o (IF ~compareRuleSets(existing.ruleSet, config) THEN <<RuleSetDiffers>> ELSE <<>>)

-----------------------------------------------------------------------------
(* wyn/collections/collectionsSync.ts: planSingleCollectionSync *)

\* the outcome of a live lookup: it threw, or it returned value
\* (exists = FALSE is null)
Lookup(threw, value) == [threw |-> threw, value |-> value]

CollectionPlan(handle, action, existingId, changes) ==
    [handle |-> handle, action |-> action, existingId |-> existingId, changes |-> changes]

planSingleCollectionSync(collection, lookup) ==
    IF lookup.threw
    THEN \* If we can't check, assume create
         CollectionPlan(collection.handle, "create", "", <<>>)
    ELSE IF ~lookup.value.exists
    THEN CollectionPlan(collection.handle, "create", "", <<>>)
    ELSE LET changes == determineCollectionChanges(lookup.value, collection) IN
         IF Len(changes) = 0
         THEN CollectionPlan(collection.handle, "noop", lookup.value.id, <<>>)
         ELSE CollectionPlan(collection.handle, "update", lookup.value.id, changes)

-----------------------------------------------------------------------------
(* wyn/menus/menusSync.ts: planSingleMenuSync *)

MenuPlan(handle, action, existingId, itemCount, changes) ==
    [handle |-> handle, action |-> action, existingId |-> existingId,
     itemCount |-> itemCount, changes |-> changes]

\* `BLOCKED: Missing collections: ${missingInMenu.join(', ')}`
BlockedChange(missingInMenu) == <<"BLOCKED: Missing collections: ", missingInMenu>>

\* c.startsWith('BLOCKED')
StartsWithBlocked(change) == change[1] = "BLOCKED: Missing collections: "

\* an executor that takes no plan for blocked
IsBlocked_Never(plan) ==
    FALSE

\* plan.changes?.some(c => c.startsWith('BLOCKED'))
IsBlocked(plan) ==
    \E k \in DOMAIN plan.changes : StartsWithBlocked(plan.changes[k])

\* a filter that tests the first handle of the menu only
FilterMissing_FirstOnly(menuHandles, missingHandles) ==
    IF menuHandles # <<>> /\ Head(menuHandles) \in Range(missingHandles)
    THEN <<Head(menuHandles)>>
    ELSE <<>>

\* menuHandles.filter(h => missingHandles.includes(h))
FilterMissing(menuHandles, missingHandles) ==
    LET keep == {k \in DOMAIN menuHandles : menuHandles[k] \in Range(missingHandles)}
        pos(k) == Cardinality({j \in keep : j <= k})
    IN  [n \in 1..Cardinality(keep) |-> menuHandles[CHOOSE k \in keep : pos(k) = n]]

\* a planner that reports an existing menu as nothing to do
planSingleMenuSync_NoUpdate(menu, missingHandles, lookup) ==
    LET missingInMenu == FilterMissing(collectTargetHandles(menu.items), missingHandles) IN
    IF Len(missingInMenu) > 0
    THEN MenuPlan(menu.handle, "noop", "", countMenuItems(menu.items),
                  <<BlockedChange(missingInMenu)>>)
    ELSE IF lookup.threw \/ ~lookup.value.exists
    THEN MenuPlan(menu.handle, "create", "", countMenuItems(menu.items), <<>>)
    ELSE MenuPlan(menu.handle, "noop", lookup.value.id, countMenuItems(menu.items), <<>>)

planSingleMenuSync(menu, missingHandles, lookup) ==
    LET itemCount == countMenuItems(menu.items)
        \* Check for missing collections
        menuHandles == collectTargetHandles(menu.items)
        missingInMenu == FilterMissing(menuHandles, missingHandles)
    IN
    IF Len(missingInMenu) > 0
    THEN MenuPlan(menu.handle, "noop", "", itemCount, <<BlockedChange(missingInMenu)>>)
    ELSE IF lookup.threw
    THEN MenuPlan(menu.handle, "create", "", itemCount, <<>>)
    ELSE IF ~lookup.value.exists
    THEN MenuPlan(menu.handle, "create", "", itemCount, <<>>)
    \* For menus, we always update since comparing nested structures is complex
    \* and the update operation is idempotent
    ELSE MenuPlan(menu.handle, "update", lookup.value.id, itemCount,
                  << <<"Existing items / Config items: ",
                       countShopifyMenuItems(lookup.value.items), itemCount>>,
                     <<"Will replace all menu items with config">> >>)

RECURSIVE GatherAll(_)
GatherAll(menus) ==
    IF menus = <<>> THEN <<>>
    ELSE collectTargetHandles(Head(menus).items) \o GatherAll(Tail(menus))

\* [...allHandles] of planMenusSync: the handles of all menus, each once, in
\* the order they were first added
GatherHandles(menus) == Dedupe(GatherAll(menus))

-----------------------------------------------------------------------------
(* shopify/redirectsApi.ts and the redirect planning of menusSync.ts *)

\* one mutating call issued to the store
Call(op, key) == [op |-> op, key |-> key]

\* getUrlRedirectByPath: the index of the redirect with this path, 0 for null
RedirectIndex(table, path) ==
    IF \E k \in DOMAIN table : table[k].path = path
    THEN CHOOSE k \in DOMAIN table : table[k].path = path
    ELSE 0

NextRedirectId(table) ==
    IF table = <<>> THEN 1
    ELSE 1 + (CHOOSE n \in {table[k].id : k \in DOMAIN table} :
                 \A k \in DOMAIN table : table[k].id <= n)

\* an upsert that creates without looking the path up
upsertUrlRedirect_AlwaysCreate(table, path, target, outcome) ==
    IF outcome = "ok"
    THEN [table |-> Append(table, [id |-> NextRedirectId(table), path |-> path,
                                   target |-> target]),
          calls |-> <<Call("urlRedirectCreate", path)>>, action |-> "created"]
    ELSE [table |-> table, calls |-> <<>>, action |-> "error"]

\* upsertUrlRedirect(path, target) where outcome says which remote call, if
\* any, throws: the table afterwards, the mutating calls issued, the action
upsertUrlRedirect(table, path, target, outcome) ==
    LET at == RedirectIndex(table, path) IN
    IF outcome = "lookupThrew"
    THEN [table |-> table, calls |-> <<>>, action |-> "error"]
    ELSE IF at # 0 /\ table[at].target = target
    THEN [table |-> table, calls |-> <<>>, action |-> "unchanged"]
    ELSE IF at # 0
    THEN IF outcome = "mutationThrew"
         THEN [table |-> table, calls |-> <<Call("urlRedirectUpdate", path)>>,
               action |-> "error"]
         ELSE [table |-> [table EXCEPT ![at].target = target],
               calls |-> <<Call("urlRedirectUpdate", path)>>, action |-> "updated"]
    ELSE IF outcome = "mutationThrew"
         THEN [table |-> table, calls |-> <<Call("urlRedirectCreate", path)>>,
               action |-> "error"]
         ELSE [table |-> Append(table, [id |-> NextRedirectId(table), path |-> path,
                                        target |-> target]),
               calls |-> <<Call("urlRedirectCreate", path)>>, action |-> "created"]

RECURSIVE TraverseUrls(_)
\* traverse() of extractCollectionUrls: the handle matched in the url of
\* every COLLECTION item, in document order
TraverseUrls(items) ==
    IF items = <<>> THEN <<>>
    ELSE LET item == Head(items) IN
         (IF item.type = "COLLECTION" /\ Len(item.url) >= 2 /\ item.url[1] = "collections"
          THEN <<item.url[2]>> ELSE <<>>)
           \o TraverseUrls(item.items)
           \o TraverseUrls(Tail(items))

\* the keys of the Map, in insertion order
extractCollectionUrls(items) == Dedupe(TraverseUrls(items))

RECURSIVE extractConfigHandles(_)
extractConfigHandles(items) ==
    IF items = <<>> THEN {}
    ELSE LET item == Head(items) IN
         (IF item.type = "COLLECTION" /\ item.target_collection_handle # ""
          THEN {item.target_collection_handle} ELSE {})
           \cup extractConfigHandles(item.children)
           \cup extractConfigHandles(Tail(items))

\* an executor that redirects the first dropped link only
RemovedHandles_FirstOnly(liveItems, configItems) ==
    LET current == extractCollectionUrls(liveItems)
        keep == {k \in DOMAIN current : current[k] \notin extractConfigHandles(configItems)}
    IN  IF keep = {} THEN <<>>
        ELSE <<current[CHOOSE k \in keep : \A j \in keep : k <= j]>>

\* the collection links of the live menu that the new configuration drops
RemovedHandles(liveItems, configItems) ==
    LET current == extractCollectionUrls(liveItems)
        keep == {k \in DOMAIN current : current[k] \notin extractConfigHandles(configItems)}
        pos(k) == Cardinality({j \in keep : j <= k})
    IN  [n \in 1..Cardinality(keep) |-> current[CHOOSE k \in keep : pos(k) = n]]

RECURSIVE RedirectRemoved(_, _, _, _, _)
\* the for-loop over currentUrls of executeSeoSafeMenuSync: one upsert per
\* removed handle; acc carries the table, the calls issued and the two
\* result lists
RedirectRemoved(handles, target, outcomes, n, acc) ==
    IF n > Len(handles) THEN acc
    ELSE LET path == <<"collections", handles[n]>>
             r == upsertUrlRedirect(acc.table, path, target, outcomes[handles[n]])
         IN  RedirectRemoved(handles, target, outcomes, n + 1,
                 [table |-> r.table,
                  calls |-> acc.calls \o r.calls,
                  redirectsCreated |->
                      IF r.action \in {"created", "updated"}
                      THEN Append(acc.redirectsCreated, path) ELSE acc.redirectsCreated,
                  redirectErrors |->
                      IF r.action = "error"
                      THEN Append(acc.redirectErrors, path) ELSE acc.redirectErrors])

\* redirectMap.get(redirect.target) of consolidateRedirectChains: the Map
\* keeps the last entry given for a path
NextRedirectIndex(all, target) ==
    IF \E k \in DOMAIN all : all[k].path = target
    THEN CHOOSE k \in DOMAIN all :
             /\ all[k].path = target
             /\ \A j \in DOMAIN all : all[j].path = target => j <= k
    ELSE 0

\* chains of the audit: redirects.filter(r => sourceSet.has(r.target))
ChainCount(all) ==
    Cardinality({k \in DOMAIN all : \E j \in DOMAIN all : all[j].path = all[k].target})

-----------------------------------------------------------------------------
(* wyn/menus/menuCleanup.ts: compareMenuWithConfig *)

\* a Map as the sequence of its entries, in insertion order
MapHas(map, key) == \E k \in DOMAIN map : map[k].key = key

MapGet(map, key) == map[CHOOSE k \in DOMAIN map : map[k].key = key].value

\* Map.set: a key the map holds keeps its place and takes the new value
MapSet(map, key, value) ==
    IF MapHas(map, key)
    THEN [k \in DOMAIN map |->
             IF map[k].key = key THEN [key |-> key, value |-> value] ELSE map[k]]
    ELSE Append(map, [key |-> key, value |-> value])

RECURSIVE mapCurrentItems(_, _)
mapCurrentItems(items, map) ==
    IF items = <<>> THEN map
    ELSE LET item == Head(items) IN
         mapCurrentItems(Tail(items),
             mapCurrentItems(item.items, MapSet(map, ToLowerCase(item.title), item)))

RECURSIVE mapConfigItems(_, _)
mapConfigItems(items, map) ==
    IF items = <<>> THEN map
    ELSE LET item == Head(items) IN
         mapConfigItems(Tail(items),
             mapConfigItems(item.children, MapSet(map, ToLowerCase(item.title), item)))

\* url.match(/\/collections\/([^/?]+)/): the handle matched, "" for no match
MatchCollectionHandle(url) ==
    IF \E k \in 1..(Len(url) - 1) : url[k] = "collections"
    THEN url[1 + CHOOSE k \in 1..(Len(url) - 1) :
                    /\ url[k] = "collections"
                    /\ \A j \in 1..(k - 1) : url[j] # "collections"]
    ELSE ""

\* newPath of a removed item's redirect: '/collections/shop-all-what-you-need'
FallbackPath == <<"collections", "shop-all-what-you-need">>

Redirect(oldPath, newPath, reason) ==
    [oldPath |-> oldPath, newPath |-> newPath, reason |-> reason]

\* a differ that compares the declared type as it is written
ConfigType_Raw(type) ==
    type

\* configItem.type === 'LINK' ? 'HTTP' : configItem.type
ConfigType(type) ==
    IF type = "LINK" THEN "HTTP" ELSE type

\* the MenuComparisonResult before anything is pushed
NoComparison ==
    [itemsToAdd |-> <<>>, itemsToRemove |-> <<>>, itemsToUpdate |-> <<>>,
     collectionsToRedirect |-> <<>>]

RECURSIVE FindRemoved(_, _, _, _)
\* the loop over currentItemsByTitle
FindRemoved(current, config, n, acc) ==
    IF n > Len(current) THEN acc
    ELSE LET currentItem == current[n].value
             handle == MatchCollectionHandle(currentItem.url)
         IN
         IF MapHas(config, current[n].key)
         THEN FindRemoved(current, config, n + 1, acc)
         ELSE FindRemoved(current, config, n + 1,
                  [acc EXCEPT
                      !.itemsToRemove = Append(@, currentItem),
                      !.collectionsToRedirect =
                          IF currentItem.type = "COLLECTION" /\ currentItem.url # <<>>
                               /\ handle # ""
                          THEN Append(@, Redirect(<<"collections", handle>>, FallbackPath,
                                                  "removed"))
                          ELSE @])

RECURSIVE FindAdded(_, _, _, _)
\* the first loop over configItemsByTitle
FindAdded(current, config, n, acc) ==
    IF n > Len(config) THEN acc
    ELSE IF MapHas(current, config[n].key)
         THEN FindAdded(current, config, n + 1, acc)
         ELSE FindAdded(current, config, n + 1,
                  [acc EXCEPT !.itemsToAdd = Append(@, config[n].value)])

RECURSIVE FindUpdated(_, _, _, _, _)
\* the second loop over configItemsByTitle
FindUpdated(current, config, ids, n, acc) ==
    IF n > Len(config) THEN acc
    ELSE IF ~MapHas(current, config[n].key)
    THEN FindUpdated(current, config, ids, n + 1, acc)
    ELSE LET configItem == config[n].value
             currentItem == MapGet(current, config[n].key)
             typeChange ==
                 IF currentItem.type # ConfigType(configItem.type)
                 THEN <<Change("Type", currentItem.type, ConfigType(configItem.type))>>
                 ELSE <<>>
             retargeted ==
                 /\ configItem.type = "COLLECTION"
                 /\ configItem.target_collection_handle # ""
                 /\ configItem.target_collection_handle \in DOMAIN ids
                 /\ currentItem.resourceId # ids[configItem.target_collection_handle]
             collectionChange ==
                 IF retargeted
                 THEN <<Change("Collection", currentItem.resourceId,
                               ids[configItem.target_collection_handle])>>
                 ELSE <<>>
             handle == MatchCollectionHandle(currentItem.url)
             changes == typeChange \o collectionChange
         IN
         FindUpdated(current, config, ids, n + 1,
             [acc EXCEPT
                 !.collectionsToRedirect =
                     IF retargeted /\ currentItem.url # <<>> /\ handle # ""
                          /\ handle # configItem.target_collection_handle
                     THEN Append(@, Redirect(<<"collections", handle>>,
                                     <<"collections", configItem.target_collection_handle>>,
                                     "changed"))
                     ELSE @,
                 !.itemsToUpdate =
                     IF Len(changes) > 0
                     THEN Append(@, [current |-> currentItem, desired |-> configItem,
                                     changes |-> changes])
                     ELSE @])

\* existing is the live menu getMenuByHandle returned (exists = FALSE is null)
compareMenuWithConfig(existing, menu, ids) ==
    IF ~existing.exists
    THEN [NoComparison EXCEPT !.itemsToAdd = menu.items]
    ELSE LET current == mapCurrentItems(existing.items, <<>>)
             config == mapConfigItems(menu.items, <<>>)
         IN  FindUpdated(current, config, ids, 1,
                 FindAdded(current, config, 1,
                     FindRemoved(current, config, 1, NoComparison)))

-----------------------------------------------------------------------------
(* Spec: one run of a command line program against a remote store *)

\* the remote calls of one run that may throw
MaxFaults == 1

\* the times the audit is run on one store
MaxRuns == 2

Clis == {"wyn-sync-collections", "wyn-sync-menus", "wyn-seo-safe-sync", "wyn-menu-audit",
         "auto-optimize"}

\* program.opts(); an option a program does not declare is FALSE
Options(apply, seoSafe, createRedirects, menusOnly, auditRedirects, fixChains) ==
    [apply |-> apply, seoSafe |-> seoSafe, createRedirects |-> createRedirects,
     menusOnly |-> menusOnly, redirects |-> auditRedirects, fixChains |-> fixChains]

\* --redirect-target as each program defaults it
RedirectTarget(program) ==
    IF program \in {"wyn-sync-menus", "auto-optimize"}
    THEN <<"collections", "all">>
    ELSE <<"collections", "shop-all-what-you-need">>

DefaultCollections ==
    << CollectionEntry("bongs", "Bongs", "", "SMART",
                       SmartRules(TRUE, <<GlassBong, SiliconeBong>>)),
       CollectionEntry("rigs", "Rigs", "", "SMART",
                       SmartRules(FALSE, <<TypeBong>>)) >>

DefaultMenus ==
    << MenuEntry("main-menu", "Main menu", MainMenuNested),
       MenuEntry("footer", "Footer", FooterLinks) >>

\* MenusConfig.cleanup_menus as enumerated
CleanupLists == { <<>>, <<"old-menu">>, <<"Old-Menu">> }

\* the order in which the store lists its menus
MenuOrder == <<"main-menu", "footer", "old-menu", "sidebar">>

\* getMenus: the id and handle of every menu the store holds
getMenus(menus) ==
    LET held(h) == menus[h].exists
        summary == [k \in DOMAIN MenuOrder |->
                       [id |-> menus[MenuOrder[k]].id, handle |-> MenuOrder[k],
                        exists |-> held(MenuOrder[k])]]
        present(m) == m.exists
    IN  SelectSeq(summary, present)

\* a cleanup that takes every menu the store lists
menusToCleanup_Every(allMenus, cleanup) ==
    allMenus

\* auto-optimize: allMenus.filter(m => cleanup_menus.some(h =>
\*     h.toLowerCase() === m.handle.toLowerCase()))
menusToCleanup(allMenus, cleanup) ==
    LET named(m) == \E k \in DOMAIN cleanup : ToLowerCase(cleanup[k]) = ToLowerCase(m.handle)
    IN  SelectSeq(allMenus, named)

EmptyMap == [h \in {} |-> ""]

EmptyResults ==
    [created |-> <<>>, updated |-> <<>>, skipped |-> <<>>, errors |-> <<>>,
     redirectsCreated |-> <<>>, redirectErrors |-> <<>>]

\* an executor that drops the entries that fail
Push_ErrorsDropped(lists, list, handle) ==
    IF list = "errors" THEN lists ELSE [lists EXCEPT ![list] = Append(@, handle)]

\* results.created.push(plan.handle), results.errors.push({ handle, error }), ...
Push(lists, list, handle) ==
    [lists EXCEPT ![list] = Append(@, handle)]

\* config.collections.find / config.menus.find: the index, 0 for undefined
FindByHandle(entries, handle) ==
    IF \E k \in DOMAIN entries : entries[k].handle = handle
    THEN CHOOSE k \in DOMAIN entries :
             /\ entries[k].handle = handle
             /\ \A j \in DOMAIN entries : entries[j].handle = handle => k <= j
    ELSE 0

\* the stores in which every declared collection is in one of its live states
CollectionStores(cfg) ==
    {f @@ OtherCollections :
        f \in {g \in [CollHandles -> UNION {LiveCollectionsFor(cfg[k]) : k \in DOMAIN cfg}] :
                  \A k \in DOMAIN cfg : g[cfg[k].handle] \in LiveCollectionsFor(cfg[k])}}

\* the stores in which every declared collection is absent or as declared
PresenceStores(cfg) ==
    {f @@ OtherCollections :
        f \in {g \in [CollHandles ->
                        UNION {{NoCollection, StoredCollection(cfg[k])} : k \in DOMAIN cfg}] :
                  \A k \in DOMAIN cfg :
                      g[cfg[k].handle] \in {NoCollection, StoredCollection(cfg[k])}}}

MenuStoresOver(cfg) ==
    {f @@ OtherMenus :
        f \in {g \in [MenuHandles -> UNION {LiveMenusFor(cfg[k]) : k \in DOMAIN cfg}] :
                  \A k \in DOMAIN cfg : g[cfg[k].handle] \in LiveMenusFor(cfg[k])}}

NoCollections == [h \in CollHandles |-> NoCollection] @@ OtherCollections

NoMenus == [h \in MenuHandles |-> NoMenu] @@ OtherMenus

-----------------------------------------------------------------------------
(* wyn/tags/tagAudit.ts and config/taggingSpecLoader.ts: the tag validator *)

\* A tag is modelled by tag.split(':'): the sequence of its colon-separated
\* parts. A tag without a colon is a sequence of one part.
Tag(dimension, value) == <<dimension, value>>

PlainTag(text) == <<text>>

\* tag.includes(':')
IncludesColon(tag) == Len(tag) > 1

\* tag.includes('-') of a tag without a colon
IncludesDash(tag) ==
    tag[1] \in {"best-seller"}

\* tag.match(/^[a-z]+$/) of a tag without a colon
IsLowerCaseWord(tag) ==
    tag[1] \in {"sale"}

\* ParsedTaggingSpec, as loadParsedTaggingSpec falls back to it
TaggingSpec ==
    [allowedDimensions |-> {"pillar", "family", "brand", "material", "format", "use",
                            "joint_size", "joint_angle", "joint_gender", "length",
                            "capacity", "style", "bundle", "category"},
     allowedPillars |-> {"smokeshop-device", "accessory", "packaging", "merch"},
     allowedFamilies |-> {"glass-bong", "silicone-bong", "glass-rig", "spoon-pipe",
                          "grinder", "rolling-paper"},
     allowedBrands |-> {"raw", "zig-zag", "puffco"},
     allowedMaterials |-> {"glass", "quartz", "silicone"},
     allowedFormats |-> {"bong", "rig", "pipe", "grinder", "paper"},
     allowedUses |-> {"flower-smoking", "dabbing", "rolling"},
     allowedStyles |-> {"made-in-usa", "heady"}]

NoParse == [parsed |-> FALSE, dimension |-> "", value |-> <<>>]

\* value is valueParts, which the code joins with ':' again
parseTag(tag) ==
    IF ~IncludesColon(tag)
    THEN NoParse
    ELSE [parsed |-> TRUE, dimension |-> tag[1], value |-> Tail(tag)]

\* { valid }; the dimension and the value are the first two parts of the tag
validateTag(tag, spec) ==
    IF ~IncludesColon(tag) THEN FALSE
    ELSE IF tag[1] \notin spec.allowedDimensions THEN FALSE
    ELSE CASE tag[1] = "pillar" -> tag[2] \in spec.allowedPillars
           [] tag[1] = "family" -> tag[2] \in spec.allowedFamilies
           [] tag[1] = "brand" -> TRUE
           [] tag[1] = "material" -> tag[2] \in spec.allowedMaterials
           [] tag[1] = "format" -> tag[2] \in spec.allowedFormats
           [] tag[1] = "use" -> tag[2] \in spec.allowedUses
           [] tag[1] = "style" -> tag[2] \in spec.allowedStyles
           [] OTHER -> TRUE

\* TagAuditError: its errorType, and the tags or values its message quotes
TagError(errorType, quoted) == [errorType |-> errorType, quoted |-> quoted]

\* pillarTags, familyTags, formatTags, useTags: the values pushed for one dimension
RECURSIVE TagsOfDimension(_, _)
TagsOfDimension(tags, dimension) ==
    IF tags = <<>> THEN <<>>
    ELSE LET p == parseTag(Head(tags))
         IN  (IF p.parsed /\ p.dimension = dimension THEN <<p.value>> ELSE <<>>)
                 \o TagsOfDimension(Tail(tags), dimension)

\* what the for loop over product.tags pushes for one tag
TagLoopErrors(tag, spec) ==
    IF ~parseTag(tag).parsed
    THEN IF IncludesDash(tag) \/ IsLowerCaseWord(tag)
         THEN <<TagError("unknown_dimension", <<tag>>)>>
         ELSE <<>>
    ELSE IF ~validateTag(tag, spec)
         THEN <<TagError("unknown_value", <<tag>>)>>
         ELSE <<>>

RECURSIVE LoopErrors(_, _)
LoopErrors(tags, spec) ==
    IF tags = <<>> THEN <<>>
    ELSE TagLoopErrors(Head(tags), spec) \o LoopErrors(Tail(tags), spec)

\* a dimension of which nothing but a missing tag is reported
RequiredErrors(values, missingType) ==
    IF Len(values) = 0 THEN <<TagError(missingType, <<>>)>> ELSE <<>>

ExactlyOneErrors_NoMultiple(values, missingType, multipleType) ==
    RequiredErrors(values, missingType)

\* if (xTags.length === 0) missing_x else if (xTags.length > 1) multiple_xs
ExactlyOneErrors(values, missingType, multipleType) ==
    IF Len(values) = 0 THEN <<TagError(missingType, <<>>)>>
    ELSE IF Len(values) > 1 THEN <<TagError(multipleType, values)>>
    ELSE <<>>

validateProductTags_FormatAsUse(prod, spec) ==
    LoopErrors(prod.tags, spec)
        \o ExactlyOneErrors(TagsOfDimension(prod.tags, "pillar"),
                            "missing_pillar", "multiple_pillars")
        \o ExactlyOneErrors(TagsOfDimension(prod.tags, "family"),
                            "missing_family", "multiple_families")
        \o RequiredErrors(TagsOfDimension(prod.tags, "format"), "missing_format")
        \o RequiredErrors(TagsOfDimension(prod.tags, "use"), "missing_use")

validateProductTags(prod, spec) ==
    LoopErrors(prod.tags, spec)
        \o ExactlyOneErrors(TagsOfDimension(prod.tags, "pillar"),
                            "missing_pillar", "multiple_pillars")
        \o ExactlyOneErrors(TagsOfDimension(prod.tags, "family"),
                            "missing_family", "multiple_families")
        \o ExactlyOneErrors(TagsOfDimension(prod.tags, "format"),
                            "missing_format", "multiple_formats")
        \o RequiredErrors(TagsOfDimension(prod.tags, "use"), "missing_use")

\* ProductTagData
Product(tags) == [handle |-> "product", title |-> "Product", tags |-> tags]

\* the tag audit's variables while another specification runs
IdleTags ==
    /\ product = Product(<<>>)
    /\ errors = <<>>
    /\ before = <<>>
    /\ tpc = "idle"

\* no upsertUrlRedirect call yet
NoUpsert ==
    [path |-> <<>>, target |-> <<>>, outcome |-> "ok", action |-> "none", calls |-> <<>>,
     before |-> <<>>]

UpsertPaths == {<<"collections", "pipes">>, <<"collections", "old">>}

\* the upsert variables while another specification runs
IdleUpsert ==
    /\ urlRedirects = <<>>
    /\ lastUpsert = NoUpsert
    /\ upserted = [p \in UpsertPaths |-> <<>>]
    /\ upserts = 0

\* the store as the run finds it
InitialStore ==
    [collections |-> remoteCollections, menus |-> remoteMenus, redirects |-> redirects]

\* consolidated = 0 and chains = [] of consolidateRedirectChains
NoReport == [consolidated |-> 0, chains |-> <<>>]

IdleRun ==
    /\ pc = "start"
    /\ idx = 1
    /\ exitCode = -1
    /\ cplans = <<>>
    /\ allHandles = <<>>
    /\ idByHandle = EmptyMap
    /\ missing = <<>>
    /\ mplans = <<>>
    /\ results = EmptyResults
    /\ snapshot = <<>>
    /\ toCleanup = <<>>
    /\ chainReport = NoReport
    /\ runNo = 1
    /\ mutations = <<>>
    /\ failedLookups = {}
    /\ faults = 0

\* the run variables while the rule-set functions are exercised on their own
IdleSync ==
    /\ cli = "none"
    /\ opts = Options(FALSE, FALSE, FALSE, FALSE, FALSE, FALSE)
    /\ cfgCollections = <<>>
    /\ cfgMenus = <<>>
    /\ remoteCollections = NoCollections
    /\ remoteMenus = NoMenus
    /\ redirects = <<>>
    /\ cfgCleanup = <<>>
    /\ store0 = InitialStore
    /\ IdleRun

\* the rule-set variables while a program runs
IdleRules ==
    /\ live = NoRuleSet
    /\ declared = [type |-> "MANUAL", smart_rules |-> NoSmartRules]
    /\ result = FALSE
    /\ first = FALSE
    /\ built = FALSE
    /\ rpc = "idle"

\* the differ's variables while another specification runs
IdleDiff ==
    /\ currentMenu = NoMenu
    /\ configMenu = MenuEntry("main-menu", "Main menu", <<>>)
    /\ diffIds = EmptyMap
    /\ comparison = NoComparison
    /\ dpc = "idle"

InitCollectionsCli ==
    /\ cli = "wyn-sync-collections"
    /\ \E apply \in BOOLEAN : opts = Options(apply, FALSE, FALSE, FALSE, FALSE, FALSE)
    /\ cfgCollections \in CollectionsConfigs
    /\ cfgMenus = <<>>
    /\ remoteCollections \in CollectionStores(cfgCollections)
    /\ remoteMenus = NoMenus
    /\ redirects = <<>>
    /\ cfgCleanup = <<>>
    /\ store0 = InitialStore

InitMenusCli ==
    /\ cli = "wyn-sync-menus"
    /\ \E apply \in BOOLEAN, seoSafe \in BOOLEAN :
          opts = Options(apply, seoSafe, seoSafe, FALSE, FALSE, FALSE)
    /\ cfgCollections = DefaultCollections
    /\ cfgMenus \in MenusConfigs
    /\ remoteCollections \in PresenceStores(cfgCollections)
    /\ remoteMenus \in MenuStoresOver(cfgMenus)
    /\ redirects \in RedirectTables
    /\ cfgCleanup = <<>>
    /\ store0 = InitialStore

InitSeoSafeCli ==
    /\ cli = "wyn-seo-safe-sync"
    /\ \E apply \in BOOLEAN, createRedirects \in BOOLEAN, menusOnly \in BOOLEAN :
          opts = Options(apply, TRUE, createRedirects, menusOnly, FALSE, FALSE)
    /\ cfgCollections = DefaultCollections
    /\ cfgMenus \in MenusConfigs
    /\ remoteCollections \in PresenceStores(cfgCollections)
    /\ remoteMenus \in {f \in MenuStoresOver(cfgMenus) : f["footer"] # NoMenu}
    /\ redirects \in RedirectTables
    /\ cfgCleanup = <<>>
    /\ store0 = InitialStore

InitAuditCli ==
    /\ cli = "wyn-menu-audit"
    /\ \E auditRedirects \in BOOLEAN, fixChains \in BOOLEAN :
          opts = Options(FALSE, FALSE, FALSE, FALSE, auditRedirects, fixChains)
    /\ cfgCollections = DefaultCollections
    /\ cfgMenus = DefaultMenus
    /\ remoteCollections = NoCollections
    /\ remoteMenus = NoMenus
    /\ redirects \in AuditedTables
    /\ cfgCleanup = <<>>
    /\ store0 = InitialStore

InitAutoOptimizeCli ==
    /\ cli = "auto-optimize"
    /\ \E apply \in BOOLEAN : opts = Options(apply, TRUE, TRUE, FALSE, FALSE, FALSE)
    /\ cfgCollections = DefaultCollections
    /\ cfgMenus \in MenusConfigs
    /\ remoteCollections \in PresenceStores(cfgCollections)
    /\ remoteMenus \in MenuStoresOver(cfgMenus)
    /\ redirects \in RedirectTables
    /\ cfgCleanup \in CleanupLists
    /\ store0 = InitialStore

Init ==
    /\ IdleRules
    /\ IdleDiff
    /\ IdleTags
    /\ IdleUpsert
    /\ IdleRun
    /\ \/ InitCollectionsCli
       \/ InitMenusCli
       \/ InitSeoSafeCli
       \/ InitAuditCli
       \/ InitAutoOptimizeCli

Exit(code) ==
    /\ pc' = "done"
    /\ exitCode' = code

\* where main() goes once the collections phase is over
AfterCollections ==
    IF cli = "wyn-seo-safe-sync"
    THEN /\ pc' = "resolveHandles"
         /\ idx' = 1
         /\ allHandles' = GatherHandles(cfgMenus)
         /\ exitCode' = exitCode
    ELSE IF cli = "auto-optimize"
    THEN /\ pc' = "fetchMenus"
         /\ idx' = 1
         /\ UNCHANGED <<allHandles, exitCode>>
    ELSE /\ Exit(IF Len(results'.errors) > 0 THEN 1 ELSE 0)
         /\ UNCHANGED <<idx, allHandles>>

\* validateEnvironment(); testConnection(): every program exits 1 when it throws
Connect ==
    /\ pc = "start"
    /\ \E threw \in BOOLEAN :
          IF threw
          THEN /\ Exit(1)
               /\ UNCHANGED <<idx, allHandles>>
          ELSE /\ exitCode' = exitCode
               /\ idx' = 1
               /\ pc' = CASE cli \in {"wyn-sync-collections", "auto-optimize"} ->
                                 "planCollections"
                          [] cli = "wyn-sync-menus" -> "resolveHandles"
                          [] cli = "wyn-seo-safe-sync" ->
                                 IF opts.menusOnly THEN "resolveHandles" ELSE "planCollections"
                          [] OTHER -> "auditMenus"
               /\ allHandles' = IF pc' = "resolveHandles" THEN GatherHandles(cfgMenus)
                                ELSE allHandles
    /\ UNCHANGED <<cplans, idByHandle, missing, mplans, results, snapshot, toCleanup,
                   chainReport, runNo, mutations,
                   failedLookups, faults>>
    /\ UNCHANGED <<pureVars, configVars, storeVars>>

\* planCollectionsSync: one iteration of the loop over config.collections
PlanCollection ==
    /\ pc = "planCollections"
    /\ idx <= Len(cfgCollections)
    /\ LET collection == cfgCollections[idx] IN
       \E threw \in BOOLEAN :
          /\ threw => faults < MaxFaults
          /\ cplans' = Append(cplans,
                 planSingleCollectionSync(collection,
                     Lookup(threw, remoteCollections[collection.handle])))
          /\ failedLookups' = IF threw
                              THEN failedLookups \cup {[kind |-> "collection",
                                                        handle |-> collection.handle]}
                              ELSE failedLookups
          /\ faults' = IF threw THEN faults + 1 ELSE faults
    /\ idx' = idx + 1
    /\ UNCHANGED <<pc, exitCode, allHandles, idByHandle, missing, mplans, results,
                   snapshot, toCleanup, chainReport, runNo, mutations>>
    /\ UNCHANGED <<pureVars, configVars, storeVars>>

\* main() after planCollectionsSync returned: apply or dry run
CollectionsPlanned ==
    /\ pc = "planCollections"
    /\ idx > Len(cfgCollections)
    /\ results' = EmptyResults
    /\ LET changing == \E k \in DOMAIN cplans : cplans[k].action \in {"create", "update"}
           execute == IF cli \in {"wyn-seo-safe-sync", "auto-optimize"}
                      THEN opts.apply /\ changing
                      ELSE opts.apply
       IN  IF execute
           THEN /\ pc' = "execCollections"
                /\ idx' = 1
                /\ UNCHANGED <<exitCode, allHandles>>
           ELSE AfterCollections
    /\ UNCHANGED <<cplans, idByHandle, missing, mplans, snapshot, toCleanup, chainReport,
                   runNo, mutations,
                   failedLookups, faults>>
    /\ UNCHANGED <<pureVars, configVars, storeVars>>

\* executeCollectionsSync: one iteration of the loop over plans.  A create
\* for a handle the store already holds makes a sibling under a handle of the
\* store's choosing and leaves the held collection as it is.
ExecCollection ==
    /\ pc = "execCollections"
    /\ idx <= Len(cplans)
    /\ LET plan == cplans[idx]
           at == FindByHandle(cfgCollections, plan.handle)
       IN
       IF at = 0
       THEN /\ results' = Push(results, "errors", plan.handle)
            /\ UNCHANGED <<remoteCollections, mutations, faults>>
       ELSE
       CASE plan.action = "create" ->
              \E threw \in BOOLEAN :
                 /\ threw => faults < MaxFaults
                 /\ faults' = IF threw THEN faults + 1 ELSE faults
                 /\ mutations' = Append(mutations, Call("collectionCreate", plan.handle))
                 /\ remoteCollections' =
                        IF threw \/ remoteCollections[plan.handle].exists
                        THEN remoteCollections
                        ELSE [remoteCollections EXCEPT
                                 ![plan.handle] = StoredCollection(cfgCollections[at])]
                 /\ results' = IF threw
                               THEN Push(results, "errors", plan.handle)
                               ELSE Push(results, "created", plan.handle)
         [] plan.action = "update" ->
              IF plan.existingId = ""
              THEN /\ results' = Push(results, "errors", plan.handle)
                   /\ UNCHANGED <<remoteCollections, mutations, faults>>
              ELSE \E threw \in BOOLEAN :
                      /\ threw => faults < MaxFaults
                      /\ faults' = IF threw THEN faults + 1 ELSE faults
                      /\ mutations' = Append(mutations, Call("collectionUpdate", plan.handle))
                      /\ remoteCollections' =
                             IF threw THEN remoteCollections
                             ELSE [remoteCollections EXCEPT ![plan.handle] =
                                      [StoredCollection(cfgCollections[at]) EXCEPT
                                          !.sortOrder =
                                              IF mapSortOrderToShopify(
                                                     cfgCollections[at].sort_order) # ""
                                              THEN mapSortOrderToShopify(
                                                       cfgCollections[at].sort_order)
                                              ELSE remoteCollections[plan.handle].sortOrder]]
                      /\ results' = IF threw
                                    THEN Push(results, "errors", plan.handle)
                                    ELSE Push(results, "updated", plan.handle)
         [] OTHER ->
              /\ results' = Push(results, "skipped", plan.handle)
              /\ UNCHANGED <<remoteCollections, mutations, faults>>
    /\ idx' = idx + 1
    /\ UNCHANGED <<pc, exitCode, cplans, allHandles, idByHandle, missing, mplans,
                   snapshot, toCleanup, chainReport, runNo, failedLookups>>
    /\ UNCHANGED <<pureVars, configVars, remoteMenus, redirects>>

\* main() after executeCollectionsSync returned
CollectionsExecuted ==
    /\ pc = "execCollections"
    /\ idx > Len(cplans)
    /\ UNCHANGED results
    /\ AfterCollections
    /\ UNCHANGED <<cplans, idByHandle, missing, mplans, snapshot, toCleanup, chainReport,
                   runNo, mutations,
                   failedLookups, faults>>
    /\ UNCHANGED <<pureVars, configVars, storeVars>>

\* auto-optimize, step 6: getMenus(100) and the filter over cleanup_menus;
\* a throw ends the step and the run
FetchMenus ==
    /\ pc = "fetchMenus"
    /\ \E threw \in BOOLEAN :
          /\ threw => faults < MaxFaults
          /\ faults' = IF threw THEN faults + 1 ELSE faults
          /\ IF threw
             THEN /\ Exit(0)
                  /\ UNCHANGED <<idx, toCleanup>>
             ELSE /\ pc' = "cleanupMenus"
                  /\ idx' = 1
                  /\ toCleanup' = IF Len(cfgCleanup) > 0
                                  THEN menusToCleanup(getMenus(remoteMenus), cfgCleanup)
                                  ELSE <<>>
                  /\ UNCHANGED exitCode
    /\ UNCHANGED <<cplans, allHandles, idByHandle, missing, mplans, results, snapshot,
                   chainReport, runNo, mutations, failedLookups>>
    /\ UNCHANGED <<pureVars, configVars, storeVars>>

\* what deleteMenu(id) may answer
Deletions == {"deleted", "failed", "threw"}

\* auto-optimize, step 6: one iteration of the loop over menusToCleanup,
\* which runs under --apply only
CleanupMenu ==
    /\ pc = "cleanupMenus"
    /\ opts.apply
    /\ idx <= Len(toCleanup)
    /\ LET menuToDelete == toCleanup[idx] IN
       \E answer \in Deletions :
          /\ answer # "deleted" => faults < MaxFaults
          /\ faults' = IF answer # "deleted" THEN faults + 1 ELSE faults
          /\ mutations' = Append(mutations, Call("menuDelete", menuToDelete.handle))
          /\ remoteMenus' = IF answer = "deleted"
                            THEN [h \in DOMAIN remoteMenus |->
                                     IF remoteMenus[h].id = menuToDelete.id
                                     THEN NoMenu ELSE remoteMenus[h]]
                            ELSE remoteMenus
          /\ IF answer = "threw"
             THEN /\ Exit(0)
                  /\ UNCHANGED idx
             ELSE /\ idx' = idx + 1
                  /\ UNCHANGED <<pc, exitCode>>
    /\ UNCHANGED <<cplans, allHandles, idByHandle, missing, mplans, results, snapshot,
                   toCleanup, chainReport, runNo, failedLookups>>
    /\ UNCHANGED <<pureVars, configVars, remoteCollections, redirects>>

\* auto-optimize, step 6: the read of each configured menu that follows the
\* cleanup, then planMenusSync; threw is a getMenuByHandle throwing
CleanupDone ==
    /\ pc = "cleanupMenus"
    /\ ~opts.apply \/ idx > Len(toCleanup)
    /\ \E threw \in BOOLEAN :
          /\ threw => /\ faults < MaxFaults
                      /\ \E k \in DOMAIN cfgMenus : remoteMenus[cfgMenus[k].handle].exists
          /\ faults' = IF threw THEN faults + 1 ELSE faults
          /\ IF threw
             THEN /\ Exit(0)
                  /\ UNCHANGED <<idx, allHandles>>
             ELSE /\ pc' = "resolveHandles"
                  /\ idx' = 1
                  /\ allHandles' = GatherHandles(cfgMenus)
                  /\ UNCHANGED exitCode
    /\ UNCHANGED <<cplans, idByHandle, missing, mplans, results, snapshot, toCleanup,
                   chainReport, runNo,
                   mutations, failedLookups>>
    /\ UNCHANGED <<pureVars, configVars, storeVars>>

\* resolveCollectionHandles: one iteration of the loop over handles
ResolveHandle ==
    /\ pc = "resolveHandles"
    /\ idx <= Len(allHandles)
    /\ LET handle == allHandles[idx] IN
       \E threw \in BOOLEAN :
          /\ threw => faults < MaxFaults
          /\ faults' = IF threw THEN faults + 1 ELSE faults
          /\ failedLookups' = IF threw
                              THEN failedLookups \cup {[kind |-> "resolve", handle |-> handle]}
                              ELSE failedLookups
          /\ IF ~threw /\ remoteCollections[handle].exists
             THEN /\ idByHandle' = idByHandle @@ (handle :> remoteCollections[handle].id)
                  /\ UNCHANGED missing
             ELSE /\ missing' = Append(missing, handle)
                  /\ UNCHANGED idByHandle
    /\ idx' = idx + 1
    /\ UNCHANGED <<pc, exitCode, cplans, allHandles, mplans, results, snapshot, toCleanup,
                   chainReport, runNo, mutations>>
    /\ UNCHANGED <<pureVars, configVars, storeVars>>

\* planMenusSync after resolveCollectionHandles returned
HandlesResolved ==
    /\ pc = "resolveHandles"
    /\ idx > Len(allHandles)
    /\ pc' = "planMenus"
    /\ idx' = 1
    /\ UNCHANGED <<exitCode, cplans, allHandles, idByHandle, missing, mplans, results,
                   snapshot, toCleanup, chainReport, runNo, mutations, failedLookups, faults>>
    /\ UNCHANGED <<pureVars, configVars, storeVars>>

\* planMenusSync: one iteration of the loop over config.menus; the live menu
\* is looked up only when the menu is not blocked
PlanMenu ==
    /\ pc = "planMenus"
    /\ idx <= Len(cfgMenus)
    /\ LET menu == cfgMenus[idx]
           looksUp == FilterMissing(collectTargetHandles(menu.items), missing) = <<>>
       IN
       \E threw \in BOOLEAN :
          /\ threw => looksUp /\ faults < MaxFaults
          /\ faults' = IF threw THEN faults + 1 ELSE faults
          /\ failedLookups' = IF threw
                              THEN failedLookups \cup {[kind |-> "menu", handle |-> menu.handle]}
                              ELSE failedLookups
          /\ mplans' = Append(mplans,
                 planSingleMenuSync(menu, missing, Lookup(threw, remoteMenus[menu.handle])))
    /\ idx' = idx + 1
    /\ UNCHANGED <<pc, exitCode, cplans, allHandles, idByHandle, missing, results,
                   snapshot, toCleanup, chainReport, runNo, mutations>>
    /\ UNCHANGED <<pureVars, configVars, storeVars>>

\* main() after planMenusSync returned: blockers, apply or dry run
MenusPlanned ==
    /\ pc = "planMenus"
    /\ idx > Len(cfgMenus)
    /\ results' = EmptyResults
    /\ LET changing == \E k \in DOMAIN mplans : mplans[k].action \in {"create", "update"} IN
       IF cli = "wyn-sync-menus" /\ Len(missing) > 0
       THEN \* SYNC BLOCKED: Some collections are missing from Shopify.
            /\ Exit(1)
            /\ UNCHANGED idx
       ELSE IF opts.apply /\ (cli = "wyn-sync-menus" \/ changing)
       THEN /\ pc' = "execMenus"
            /\ idx' = 1
            /\ UNCHANGED exitCode
       ELSE /\ Exit(0)
            /\ UNCHANGED idx
    /\ UNCHANGED <<cplans, allHandles, idByHandle, missing, mplans, snapshot, toCleanup,
                   chainReport, runNo, mutations,
                   failedLookups, faults>>
    /\ UNCHANGED <<pureVars, configVars, storeVars>>

\* what one upsertUrlRedirect may meet
Outcomes == {"ok", "lookupThrew", "mutationThrew"}

\* executeMenusSync / executeSeoSafeMenuSync: one iteration of the loop over
\* plans.  menuCreate for a handle the store already holds is answered with
\* userErrors, which checkUserErrors throws.
ExecMenu ==
    /\ pc = "execMenus"
    /\ idx <= Len(mplans)
    /\ LET plan == mplans[idx]
           at == FindByHandle(cfgMenus, plan.handle)
           runs == at # 0 /\ ~IsBlocked(plan)
           redirecting == /\ runs
                          /\ opts.seoSafe
                          /\ opts.createRedirects
                          /\ plan.action = "update"
                          /\ plan.existingId # ""
           existingMenu == remoteMenus[plan.handle]
           removed == IF redirecting /\ existingMenu.exists
                      THEN RemovedHandles(existingMenu.items, cfgMenus[at].items)
                      ELSE <<>>
       IN
       \E lookupThrew \in BOOLEAN, opThrew \in BOOLEAN, outcomes \in [Range(removed) -> Outcomes] :
          LET nfaults == (IF lookupThrew THEN 1 ELSE 0) + (IF opThrew THEN 1 ELSE 0)
                           + Cardinality({h \in Range(removed) : outcomes[h] # "ok"})
              acc == IF lookupThrew
                     THEN [table |-> redirects, calls |-> <<>>,
                           redirectsCreated |-> results.redirectsCreated,
                           redirectErrors |-> results.redirectErrors]
                     ELSE RedirectRemoved(removed, RedirectTarget(cli), outcomes, 1,
                              [table |-> redirects, calls |-> <<>>,
                               redirectsCreated |-> results.redirectsCreated,
                               redirectErrors |-> results.redirectErrors])
              afterRedirects == [results EXCEPT !.redirectsCreated = acc.redirectsCreated,
                                                !.redirectErrors = acc.redirectErrors]
              failed == Push(afterRedirects, "errors", plan.handle)
          IN
          /\ lookupThrew => redirecting /\ ~opThrew /\ \A h \in Range(removed) : outcomes[h] = "ok"
          /\ opThrew => runs /\ plan.action \in {"create", "update"}
          /\ faults + nfaults <= MaxFaults
          /\ faults' = faults + nfaults
          /\ redirects' = acc.table
          /\ IF ~runs \/ lookupThrew
             THEN \* Config not found, BLOCKED, or getMenuByHandle threw
                  /\ results' = failed
                  /\ mutations' = mutations
                  /\ remoteMenus' = remoteMenus
             ELSE
             CASE plan.action = "create" ->
                    /\ mutations' = mutations \o acc.calls
                                      \o <<Call("menuCreate", plan.handle)>>
                    /\ IF opThrew \/ existingMenu.exists
                       THEN /\ results' = failed
                            /\ remoteMenus' = remoteMenus
                       ELSE /\ results' = Push(afterRedirects, "created", plan.handle)
                            /\ remoteMenus' = [remoteMenus EXCEPT ![plan.handle] =
                                   [exists |-> TRUE, id |-> MenuId(plan.handle),
                                    items |-> buildMenuItemsInput(cfgMenus[at].items,
                                                                  idByHandle)]]
               [] plan.action = "update" ->
                    IF plan.existingId = ""
                    THEN /\ results' = failed
                         /\ mutations' = mutations \o acc.calls
                         /\ remoteMenus' = remoteMenus
                    ELSE /\ mutations' = mutations \o acc.calls
                                           \o <<Call("menuUpdate", plan.handle)>>
                         /\ IF opThrew
                            THEN /\ results' = failed
                                 /\ remoteMenus' = remoteMenus
                            ELSE /\ results' = Push(afterRedirects, "updated", plan.handle)
                                 /\ remoteMenus' = [remoteMenus EXCEPT ![plan.handle] =
                                        [exists |-> TRUE, id |-> plan.existingId,
                                         items |-> buildMenuItemsInput(cfgMenus[at].items,
                                                                       idByHandle)]]
               [] OTHER ->
                    /\ results' = Push(afterRedirects, "skipped", plan.handle)
                    /\ mutations' = mutations \o acc.calls
                    /\ remoteMenus' = remoteMenus
    /\ idx' = idx + 1
    /\ UNCHANGED <<pc, exitCode, cplans, allHandles, idByHandle, missing, mplans,
                   snapshot, toCleanup, chainReport, runNo, failedLookups>>
    /\ UNCHANGED <<pureVars, configVars, remoteCollections>>

\* main() after the menu executor returned
MenusExecuted ==
    /\ pc = "execMenus"
    /\ idx > Len(mplans)
    /\ Exit(IF cli = "wyn-sync-menus" /\ Len(results.errors) > 0 THEN 1 ELSE 0)
    /\ UNCHANGED <<idx, cplans, allHandles, idByHandle, missing, mplans, results,
                   snapshot, toCleanup, chainReport, runNo, mutations, failedLookups, faults>>
    /\ UNCHANGED <<pureVars, configVars, storeVars>>

\* wyn-menu-audit: generateMenuAuditReport, which only reads; a failure is
\* reported and the audit goes on
AuditMenus ==
    /\ pc = "auditMenus"
    /\ pc' = "auditRedirects"
    /\ UNCHANGED <<idx, exitCode, cplans, allHandles, idByHandle, missing, mplans,
                   results, snapshot, toCleanup, chainReport, runNo, mutations,
                   failedLookups, faults>>
    /\ UNCHANGED <<pureVars, configVars, storeVars>>

\* wyn-menu-audit: the redirects audit up to the loop of
\* consolidateRedirectChains; threw is either getUrlRedirects throwing
AuditRedirects ==
    /\ pc = "auditRedirects"
    /\ \E threw \in BOOLEAN :
          /\ threw => opts.redirects /\ faults < MaxFaults
          /\ faults' = IF threw THEN faults + 1 ELSE faults
          /\ IF opts.redirects /\ ~threw /\ opts.fixChains /\ ChainCount(redirects) > 0
             THEN /\ pc' = "consolidate"
                  /\ idx' = 1
                  /\ snapshot' = redirects
                  /\ UNCHANGED exitCode
             ELSE /\ Exit(0)
                  /\ UNCHANGED <<idx, snapshot>>
    /\ UNCHANGED <<cplans, allHandles, idByHandle, missing, mplans, results, toCleanup,
                   chainReport, runNo,
                   mutations, failedLookups>>
    /\ UNCHANGED <<pureVars, configVars, storeVars>>

\* consolidateRedirectChains: one iteration of the loop over allRedirects;
\* a throw of updateUrlRedirect ends the redirects audit
ConsolidateStep ==
    /\ pc = "consolidate"
    /\ idx <= Len(snapshot)
    /\ LET redirect == snapshot[idx]
           nextRedirect == NextRedirectIndex(snapshot, redirect.target)
       IN
       IF nextRedirect = 0
       THEN /\ idx' = idx + 1
            /\ UNCHANGED <<pc, exitCode, redirects, chainReport, mutations, faults>>
       ELSE \E threw \in BOOLEAN :
               /\ threw => faults < MaxFaults
               /\ faults' = IF threw THEN faults + 1 ELSE faults
               /\ mutations' = Append(mutations, Call("urlRedirectUpdate", redirect.path))
               /\ chainReport' =
                      [consolidated |-> IF threw THEN chainReport.consolidated
                                        ELSE chainReport.consolidated + 1,
                       chains |-> Append(chainReport.chains,
                                         [original |-> redirect.path,
                                          intermediate |-> redirect.target,
                                          final |-> snapshot[nextRedirect].target])]
               /\ IF threw
                  THEN /\ Exit(0)
                       /\ UNCHANGED <<idx, redirects>>
                  ELSE /\ idx' = idx + 1
                       /\ redirects' = [k \in DOMAIN redirects |->
                              IF redirects[k].id = redirect.id
                              THEN [redirects[k] EXCEPT !.path = redirect.path,
                                                        !.target = snapshot[nextRedirect].target]
                              ELSE redirects[k]]
                       /\ UNCHANGED <<pc, exitCode>>
    /\ UNCHANGED <<cplans, allHandles, idByHandle, missing, mplans, results, snapshot,
                   toCleanup,
                   runNo, failedLookups>>
    /\ UNCHANGED <<pureVars, configVars, remoteCollections, remoteMenus>>

\* wyn-menu-audit after consolidateRedirectChains returned
ConsolidateDone ==
    /\ pc = "consolidate"
    /\ idx > Len(snapshot)
    /\ Exit(0)
    /\ UNCHANGED <<idx, cplans, allHandles, idByHandle, missing, mplans, results,
                   snapshot, toCleanup, chainReport, runNo, mutations, failedLookups, faults>>
    /\ UNCHANGED <<pureVars, configVars, storeVars>>

\* wyn-menu-audit --redirects --fix-chains is run again on the store it left
Rerun ==
    /\ pc = "done"
    /\ cli = "wyn-menu-audit"
    /\ opts.redirects /\ opts.fixChains
    /\ exitCode = 0
    /\ runNo < MaxRuns
    /\ pc' = "start"
    /\ idx' = 1
    /\ exitCode' = -1
    /\ snapshot' = <<>>
    /\ chainReport' = NoReport
    /\ runNo' = runNo + 1
    /\ UNCHANGED <<cplans, allHandles, idByHandle, missing, mplans, results, toCleanup,
                   mutations, failedLookups, faults>>
    /\ UNCHANGED <<pureVars, configVars, storeVars>>

\* the same command line is run again on the store a clean run left
RunAgain ==
    /\ pc = "done"
    /\ cli \in {"wyn-sync-collections", "wyn-sync-menus", "wyn-seo-safe-sync"}
    /\ opts.apply
    /\ exitCode = 0
    /\ results.errors = <<>>
    /\ results.redirectErrors = <<>>
    /\ faults = 0
    /\ runNo < MaxRuns
    /\ pc' = "start"
    /\ idx' = 1
    /\ exitCode' = -1
    /\ cplans' = <<>>
    /\ allHandles' = <<>>
    /\ idByHandle' = EmptyMap
    /\ missing' = <<>>
    /\ mplans' = <<>>
    /\ results' = EmptyResults
    /\ runNo' = runNo + 1
    /\ store0' = InitialStore
    /\ UNCHANGED <<snapshot, toCleanup, chainReport, mutations, failedLookups, faults>>
    /\ UNCHANGED <<pureVars, cli, opts, cfgCollections, cfgMenus, cfgCleanup, storeVars>>

Next ==
    \/ Connect
    \/ PlanCollection
    \/ CollectionsPlanned
    \/ ExecCollection
    \/ CollectionsExecuted
    \/ FetchMenus
    \/ CleanupMenu
    \/ CleanupDone
    \/ ResolveHandle
    \/ HandlesResolved
    \/ PlanMenu
    \/ MenusPlanned
    \/ ExecMenu
    \/ MenusExecuted
    \/ AuditMenus
    \/ AuditRedirects
    \/ ConsolidateStep
    \/ ConsolidateDone
    \/ Rerun
    \/ RunAgain

Spec == Init /\ [][Next]_vars

-----------------------------------------------------------------------------
(* SpecRules: the rule-set functions applied to bounded inputs *)

LiveInputs ==
    {NoRuleSet} \cup {RuleSet(d, rs) : d \in BOOLEAN, rs \in SeqsUpTo(LiveRules, MaxRules)}

SmartRulesInputs ==
    {NoSmartRules}
      \cup {SmartRules(d, cs) : d \in BOOLEAN, cs \in SeqsUpTo(Conditions, MaxRules)}

DeclaredInputs ==
    {[type |-> t, smart_rules |-> sr] : t \in {"SMART", "MANUAL"}, sr \in SmartRulesInputs}

InitRules ==
    /\ live \in LiveInputs
    /\ declared \in DeclaredInputs
    /\ result = FALSE
    /\ first = FALSE
    /\ built = FALSE
    /\ rpc = "input"
    /\ IdleSync
    /\ IdleDiff
    /\ IdleTags
    /\ IdleUpsert

\* the store is sent buildCollectionInput(declared) and keeps what it is sent
BuildInput ==
    /\ rpc = "input"
    /\ ~built
    /\ live' = buildRuleSetInput(declared)
    /\ built' = TRUE
    /\ UNCHANGED <<declared, result, first, rpc>>
    /\ UNCHANGED ruleFrame

Compare ==
    /\ rpc = "input"
    /\ result' = compareRuleSets(live, declared)
    /\ first' = result'
    /\ rpc' = "compared"
    /\ UNCHANGED <<live, declared, built>>
    /\ UNCHANGED ruleFrame

\* the same call with the live rules in another order
PermuteLive ==
    /\ rpc = "compared"
    /\ live.present
    /\ \E p \in Permutations(DOMAIN live.rules) :
          /\ live' = [live EXCEPT !.rules = Reorder(live.rules, p)]
          /\ result' = compareRuleSets(live', declared)
    /\ UNCHANGED <<declared, first, built, rpc>>
    /\ UNCHANGED ruleFrame

\* the same call with the declared conditions in another order
PermuteDeclared ==
    /\ rpc = "compared"
    /\ declared.smart_rules.present
    /\ \E p \in Permutations(DOMAIN declared.smart_rules.conditions) :
          /\ declared' = [declared EXCEPT !.smart_rules.conditions =
                             Reorder(declared.smart_rules.conditions, p)]
          /\ result' = compareRuleSets(live, declared')
    /\ UNCHANGED <<live, first, built, rpc>>
    /\ UNCHANGED ruleFrame

NextRules ==
    \/ BuildInput
    \/ Compare
    \/ PermuteLive
    \/ PermuteDeclared

SpecRules == InitRules /\ [][NextRules]_vars

-----------------------------------------------------------------------------
(* Claims about the rule-set differ *)

BothPresent == live.present /\ declared.smart_rules.present

FlagsMatch == live.appliedDisjunctively = declared.smart_rules.appliedDisjunctively

MappedConditions ==
    [k \in DOMAIN declared.smart_rules.conditions |->
        [column    |-> mapFieldToShopifyColumn(declared.smart_rules.conditions[k].field),
         relation  |-> mapRelationToShopify(declared.smart_rules.conditions[k].relation),
         condition |-> declared.smart_rules.conditions[k].value]]

\* C1: compareRuleSets(live, declared) is true exactly when the disjunctive
\* flags match and the live rules equal the mapped declared conditions as
\* unordered multisets of (field, relation, value) triples; a declared list
\* repeating one condition is not equivalent to two distinct live rules.
C1_MultisetEquivalence ==
    (rpc = "compared" /\ BothPresent)
        => (result = (FlagsMatch /\ SameMultiset(live.rules, MappedConditions)))

\* C2: rule-set equivalence is reflexive and order independent: the rule set
\* buildCollectionInput(c) sends for a SMART collection c compares equal to c,
\* and permuting either list never changes the result of the comparison.
C2_ReflexiveOrderIndependent ==
    rpc = "compared" =>
        /\ result = first
        /\ (built /\ declared.type = "SMART") => result = TRUE

C2_Witness ==
    /\ rpc = "compared"
    /\ built
    /\ declared.type = "SMART"
    /\ Len(live.rules) >= 2
    /\ live.rules # MappedConditions
    /\ result = TRUE

\* C3: when the live collection has no rules (rule set absent or rule list
\* empty) and the declared collection has no conditions (smart_rules absent or
\* conditions empty), compareRuleSets returns true.
LiveHasNoRules == ~live.present \/ Len(live.rules) = 0

DeclaredHasNoRules ==
    ~declared.smart_rules.present \/ Len(declared.smart_rules.conditions) = 0

C3_BothEmptyEquivalent ==
    (rpc = "compared" /\ LiveHasNoRules /\ DeclaredHasNoRules) => result = TRUE

\* C4: when both rule sets exist and their appliedDisjunctively flags differ,
\* compareRuleSets returns false whatever the conditions on either side.
C4_FlagMismatchNeverEquivalent ==
    (rpc = "compared" /\ BothPresent /\ ~FlagsMatch) => result = FALSE

C4_Witness ==
    /\ rpc = "compared"
    /\ BothPresent
    /\ ~FlagsMatch
    /\ Len(live.rules) >= 1
    /\ SameMultiset(live.rules, MappedConditions)
    /\ result = FALSE

-----------------------------------------------------------------------------
(* Claims about the planners and the command line programs *)

\* the rule list that config declares, in the store's vocabulary
MappedRules(config) ==
    [k \in DOMAIN config.smart_rules.conditions |->
        [column    |-> mapFieldToShopifyColumn(config.smart_rules.conditions[k].field),
         relation  |-> mapRelationToShopify(config.smart_rules.conditions[k].relation),
         condition |-> config.smart_rules.conditions[k].value]]

\* rule-set equivalence as C1 and C3 state it
RuleSetsEquivalent(existing, config) ==
    LET liveEmpty == ~existing.present \/ Len(existing.rules) = 0
        declaredEmpty == ~config.smart_rules.present
                           \/ Len(config.smart_rules.conditions) = 0
    IN  IF liveEmpty /\ declaredEmpty THEN TRUE
        ELSE IF ~existing.present \/ ~config.smart_rules.present THEN FALSE
        ELSE /\ existing.appliedDisjunctively = config.smart_rules.appliedDisjunctively
             /\ SameMultiset(existing.rules, MappedRules(config))

\* the live collection differs from the declared one
HasDelta(existing, config) ==
    \/ existing.title # config.title
    \/ config.sort_order # "" /\ existing.sortOrder # config.sort_order
    \/ ~RuleSetsEquivalent(existing.ruleSet, config)

LookupFailed(kind, handle) == [kind |-> kind, handle |-> handle] \in failedLookups

\* C5: the collection planner yields one plan per declared collection, in
\* order: create when the live lookup returns no collection, noop when the
\* live collection has no delta, update when it has one, and then the change
\* list is non-empty and holds 'Rule set differs' whenever the live and the
\* declared rule sets are not equivalent.
C5_OneActionPerCollection ==
    pc = "planCollections" =>
        /\ Len(cplans) = idx - 1
        /\ \A k \in DOMAIN cplans :
              LET config == cfgCollections[k]
                  existing == remoteCollections[config.handle]
                  plan == cplans[k]
              IN  /\ plan.handle = config.handle
                  /\ plan.action \in {"create", "update", "noop"}
                  /\ ~LookupFailed("collection", config.handle) =>
                        /\ ~existing.exists => plan.action = "create"
                        /\ (existing.exists /\ ~HasDelta(existing, config)) =>
                              plan.action = "noop"
                        /\ (existing.exists /\ HasDelta(existing, config)) =>
                              /\ plan.action = "update"
                              /\ Len(plan.changes) > 0
                              /\ ~RuleSetsEquivalent(existing.ruleSet, config) =>
                                    RuleSetDiffers \in Range(plan.changes)

\* the live menu is the tree the declared menu builds
StructurallyIdentical(existing, menu) ==
    /\ existing.exists
    /\ existing.items = buildMenuItemsInput(menu.items, AllIds)

\* C6: a declared menu whose live counterpart exists and is structurally
\* identical to the declared tree is classified as noop, not update.
C6_IdenticalMenuIsNoop ==
    pc = "planMenus" =>
        \A k \in DOMAIN mplans :
            (/\ ~LookupFailed("menu", cfgMenus[k].handle)
             /\ StructurallyIdentical(remoteMenus[cfgMenus[k].handle], cfgMenus[k]))
                => mplans[k].action = "noop"

\* C6 as the planner behaves: a declared menu that is not blocked and whose
\* live lookup returns a menu is classified as update, also when the live
\* menu is structurally identical to the declared tree; a menu plan is noop
\* only when it is blocked.
C6_ExistingMenuIsUpdate ==
    pc = "planMenus" =>
        \A k \in DOMAIN mplans :
            /\ (/\ ~IsBlocked(mplans[k])
                /\ ~LookupFailed("menu", cfgMenus[k].handle)
                /\ remoteMenus[cfgMenus[k].handle].exists)
                   => /\ mplans[k].action = "update"
                      /\ mplans[k].existingId = remoteMenus[cfgMenus[k].handle].id
            /\ mplans[k].action = "noop" => IsBlocked(mplans[k])

C6_Witness ==
    /\ pc = "planMenus"
    /\ \E k \in DOMAIN mplans :
          /\ ~LookupFailed("menu", cfgMenus[k].handle)
          /\ StructurallyIdentical(remoteMenus[cfgMenus[k].handle], cfgMenus[k])
          /\ ~IsBlocked(mplans[k])
          /\ mplans[k].action = "update"

RECURSIVE ReferencedHandles(_)
\* the collection handles the items reference, at any nesting level
ReferencedHandles(items) ==
    {items[k].target_collection_handle :
        k \in {j \in DOMAIN items : items[j].target_collection_handle # ""}}
      \cup UNION {ReferencedHandles(items[k].children) : k \in DOMAIN items}

\* the handle could not be resolved: the store holds no such collection, or
\* the lookup threw
Unresolved(handle) ==
    ~remoteCollections[handle].exists \/ LookupFailed("resolve", handle)

UnresolvedIn(menu) == {h \in ReferencedHandles(menu.items) : Unresolved(h)}

\* the handles a blocked plan names
NamedHandles(plan) ==
    UNION {Range(plan.changes[k][2]) :
              k \in {j \in DOMAIN plan.changes : StartsWithBlocked(plan.changes[j])}}

\* C7: a menu is planned as blocked exactly when some collection handle its
\* items reference, at any depth, could not be resolved, and the block names
\* exactly the unresolved handles of this menu.
C7_BlockedNamesOwnUnresolved ==
    \A k \in DOMAIN mplans :
        /\ mplans[k].handle = cfgMenus[k].handle
        /\ IsBlocked(mplans[k]) <=> UnresolvedIn(cfgMenus[k]) # {}
        /\ IsBlocked(mplans[k]) =>
              /\ NamedHandles(mplans[k]) = UnresolvedIn(cfgMenus[k])
              /\ mplans[k].action = "noop"

C7_Witness ==
    /\ Len(mplans) = 2
    /\ Range(missing) = {"bongs", "rigs"}
    /\ cfgMenus[1].items = MainMenuNested
    /\ IsBlocked(mplans[1])
    /\ NamedHandles(mplans[1]) = {"bongs"}
    /\ IsBlocked(mplans[2])
    /\ NamedHandles(mplans[2]) = {"rigs"}

\* the run applied the menu declared at position k
MenuApplied(k) ==
    mplans[k].handle \in Range(results.created) \cup Range(results.updated)

\* C8: in a run with --apply in which one menu is blocked by a missing
\* collection, every menu that references only resolved collections is still
\* created or updated (no remote call having thrown).
C8_SiblingMenusProceed ==
    (/\ pc = "done"
     /\ opts.apply
     /\ faults = 0
     /\ Len(mplans) = Len(cfgMenus)
     /\ \E j \in DOMAIN mplans : IsBlocked(mplans[j]))
        => \A k \in DOMAIN mplans : ~IsBlocked(mplans[k]) => MenuApplied(k)

\* C9: a live lookup that throws during planning folds into blocked
\* handling: the collection or menu whose lookup threw, and the menu that
\* references a collection whose resolution threw, is planned as blocked and
\* never as create or update.
C9_FetchFailureBlocks ==
    /\ \A k \in DOMAIN cplans :
          LookupFailed("collection", cplans[k].handle)
              => cplans[k].action \notin {"create", "update"}
    /\ \A k \in DOMAIN mplans :
          (\/ LookupFailed("menu", mplans[k].handle)
           \/ \E h \in ReferencedHandles(cfgMenus[k].items) : LookupFailed("resolve", h))
              => /\ IsBlocked(mplans[k])
                 /\ mplans[k].action \notin {"create", "update"}

PlanningSteps == {"planCollections", "resolveHandles", "planMenus"}

\* C10: the planners only read, and a run without --apply never issues a
\* mutating call to the store.
C10_DryRunNeverMutates ==
    /\ [](~opts.apply => mutations = <<>>)
    /\ [][(pc \in PlanningSteps) => (mutations' = mutations /\ storeVars' = storeVars)]_vars

-----------------------------------------------------------------------------
(* No destructive operations *)

\* the handles config.collections names
ListedCollections == {cfgCollections[k].handle : k \in DOMAIN cfgCollections}

\* the handles the menus configuration names, in menus or in cleanup_menus
ListedMenus ==
    {cfgMenus[k].handle : k \in DOMAIN cfgMenus}
      \cup {ToLowerCase(cfgCleanup[k]) : k \in DOMAIN cfgCleanup}

CollectionCalls == {"collectionCreate", "collectionUpdate", "collectionDelete"}

MenuCalls == {"menuCreate", "menuUpdate", "menuDelete"}

\* C11: in every run, a collection or menu whose handle the declared
\* configuration does not list is as the run found it, and no create, update
\* or delete was issued for it
C11_UnlistedLeftAlone ==
    /\ \A h \in DOMAIN remoteCollections :
          h \notin ListedCollections => remoteCollections[h] = store0.collections[h]
    /\ \A h \in DOMAIN remoteMenus :
          ToLowerCase(h) \notin ListedMenus => remoteMenus[h] = store0.menus[h]
    /\ \A n \in DOMAIN mutations :
          /\ mutations[n].op \in CollectionCalls => mutations[n].key \in ListedCollections
          /\ mutations[n].op \in MenuCalls => ToLowerCase(mutations[n].key) \in ListedMenus

\* an apply run that deleted a menu named in cleanup_menus, wrote a declared
\* menu and a declared collection, and ended with the unlisted ones in place
C11_Witness ==
    /\ pc = "done"
    /\ opts.apply
    /\ \E n \in DOMAIN mutations : mutations[n].op = "menuDelete"
    /\ \E n \in DOMAIN mutations : mutations[n].op \in {"menuCreate", "menuUpdate"}
    /\ \E n \in DOMAIN mutations : mutations[n].op \in {"collectionCreate", "collectionUpdate"}
    /\ ~remoteMenus["old-menu"].exists
    /\ remoteMenus["sidebar"] = store0.menus["sidebar"]
    /\ remoteMenus["sidebar"].exists
    /\ remoteCollections["pipes"].exists

-----------------------------------------------------------------------------
(* Redirect chains *)

\* the node reached from `node` after at most n hops along the table's edges
RECURSIVE Follow(_, _, _)
Follow(table, node, n) ==
    IF n = 0 \/ RedirectIndex(table, node) = 0 THEN node
    ELSE Follow(table, table[RedirectIndex(table, node)].target, n - 1)

\* the edge k of the table lies on a cycle
OnCycle(table, k) ==
    \E n \in 1..Len(table) : Follow(table, table[k].target, n - 1) = table[k].path

Acyclic(table) == \A k \in DOMAIN table : ~OnCycle(table, k)

\* the end of the chain that starts at path, in an acyclic table
Terminal(table, path) == Follow(table, path, Len(table))

\* a first run of wyn-menu-audit --redirects --fix-chains that ended and in
\* which no remote call threw
ConsolidatedOnce ==
    /\ cli = "wyn-menu-audit"
    /\ opts.redirects /\ opts.fixChains
    /\ runNo = 1
    /\ pc = "done"
    /\ exitCode = 0
    /\ faults = 0

\* C12: after consolidateRedirectChains ran on an acyclic table, no
\* redirect's target is the path of another redirect, and every redirect
\* points at the end of the chain it began with
C12_NoResidualChains ==
    (ConsolidatedOnce /\ Acyclic(store0.redirects))
        => /\ ChainCount(redirects) = 0
           /\ \A k \in DOMAIN redirects :
                 redirects[k].target = Terminal(store0.redirects, redirects[k].path)

\* C13: a second run of the consolidation, on the table a first run left,
\* finds no chain and performs no update
C13_SecondRunIsFixedPoint ==
    (cli = "wyn-menu-audit" /\ runNo = 2 /\ faults = 0) => chainReport = NoReport

\* C14: no update is issued for a redirect that lies on a cycle; its edge
\* keeps its target and is not counted among the consolidated chains
C14_CycleLeftUntouched ==
    \A k \in DOMAIN store0.redirects :
        OnCycle(store0.redirects, k)
            => /\ redirects[k] = store0.redirects[k]
               /\ \A n \in DOMAIN mutations :
                     mutations[n] # Call("urlRedirectUpdate", store0.redirects[k].path)
               /\ \A n \in DOMAIN chainReport.chains :
                     chainReport.chains[n].original # store0.redirects[k].path

-----------------------------------------------------------------------------
(* SpecMenuDiff: compareMenuWithConfig applied to bounded inputs *)

\* "Shopify only supports 3 levels": the levels GET_MENU_BY_ID selects
MaxMenuLevels == 3

\* a declared tree of four levels
DeepTree ==
    << MenuItem("Shop", "LINK", "", <<"collections", "all">>,
         << MenuItem("More", "LINK", "", <<"pages", "more">>,
              << MenuItem("Bongs", "COLLECTION", "bongs", <<>>,
                   << MenuItem("Rigs", "COLLECTION", "rigs", <<>>, <<>>) >>) >>) >>) >>

\* a declared tree in which two items share a lowercased title
TwinTitles ==
    << MenuItem("Bongs", "COLLECTION", "bongs", <<>>, <<>>),
       MenuItem("Sale", "LINK", "", <<"pages", "sale">>,
                << MenuItem("bongs", "COLLECTION", "rigs", <<>>, <<>>) >>) >>

DeclaredTrees ==
    {MainMenuNested, MainMenuBoth, FooterRigs, FooterLinks, DeepTree, TwinTitles}

\* a live tree in which two collection links share a lowercased title
LiveTwins ==
    << LiveItem("Pipes", "COLLECTION", CollectionId("pipes"), <<"collections", "pipes">>, <<>>),
       LiveItem("Sale", "HTTP", "", <<"pages", "sale">>,
                << LiveItem("pipes", "COLLECTION", "gid://shopify/Collection/8",
                            <<"collections", "hand-pipes">>, <<>>) >>) >>

\* a live link titled as a declared item and pointing at another collection
LiveRetargeted ==
    << LiveItem("Bongs", "COLLECTION", CollectionId("pipes"), <<"collections", "pipes">>, <<>>) >>

IdMaps == {AllIds, EmptyMap}

RECURSIVE Levels(_)
\* the depth of a declared tree
Levels(items) ==
    IF items = <<>> THEN 0
    ELSE LET below == {Levels(items[k].children) : k \in DOMAIN items}
         IN  1 + CHOOSE n \in below : \A m \in below : m <= n

\* the item trees getMenuByHandle may return: at most MaxMenuLevels deep
LiveTrees ==
    {OldMenuItems, LiveTwins, LiveRetargeted}
      \cup {buildMenuItemsInput(t, AllIds) :
              t \in {d \in DeclaredTrees : Levels(d) <= MaxMenuLevels}}

InitMenuDiff ==
    /\ currentMenu \in {NoMenu}
           \cup {[exists |-> TRUE, id |-> MenuId("main-menu"), items |-> t] : t \in LiveTrees}
    /\ configMenu \in {MenuEntry("main-menu", "Main menu", t) : t \in DeclaredTrees}
    /\ diffIds \in IdMaps
    /\ comparison = NoComparison
    /\ dpc = "input"
    /\ IdleRules
    /\ IdleSync
    /\ IdleTags
    /\ IdleUpsert

\* the store is sent the declared tree by updateMenu and keeps what it is sent
ApplyConfig ==
    /\ dpc = "input"
    /\ Levels(configMenu.items) <= MaxMenuLevels
    /\ currentMenu' = [exists |-> TRUE, id |-> MenuId(configMenu.handle),
                       items |-> buildMenuItemsInput(configMenu.items, diffIds)]
    /\ UNCHANGED <<configMenu, diffIds, comparison, dpc>>
    /\ UNCHANGED diffFrame

CompareMenu ==
    /\ dpc = "input"
    /\ comparison' = compareMenuWithConfig(currentMenu, configMenu, diffIds)
    /\ dpc' = "compared"
    /\ UNCHANGED <<currentMenu, configMenu, diffIds>>
    /\ UNCHANGED diffFrame

NextMenuDiff ==
    \/ ApplyConfig
    \/ CompareMenu

SpecMenuDiff == InitMenuDiff /\ [][NextMenuDiff]_vars

-----------------------------------------------------------------------------
(* The tag validator on its own: one product is validated, tagged with one
   more tag in the product export, and validated again. *)

MaxTags == 4

\* the tags a product of the export may carry
TagPool ==
    {Tag("pillar", "smokeshop-device"), Tag("pillar", "accessory"),
     Tag("pillar", "bogus"), Tag("family", "glass-bong"), Tag("format", "bong"),
     Tag("use", "flower-smoking"), Tag("brand", "raw"), Tag("brand", "puffco"),
     Tag("color", "red"), PlainTag("sale"), PlainTag("New")}

\* loadProductData: the tags of one record, in the order of its Tags column
TagLists == SeqsUpTo(TagPool, MaxTags)

InitTags ==
    /\ product \in {Product(tags) : tags \in TagLists}
    /\ errors = <<>>
    /\ before = <<>>
    /\ tpc = "input"
    /\ IdleRules
    /\ IdleDiff
    /\ IdleSync
    /\ IdleUpsert

\* runTagAudit: errors = validateProductTags(product, spec)
ValidateProduct ==
    /\ tpc \in {"input", "retagged"}
    /\ errors' = validateProductTags(product, TaggingSpec)
    /\ tpc' = IF tpc = "input" THEN "validated" ELSE "revalidated"
    /\ UNCHANGED <<product, before>>
    /\ UNCHANGED tagFrame

\* the record's Tags column gets one more tag before the next audit
Retag ==
    /\ tpc = "validated"
    /\ Len(product.tags) < MaxTags
    /\ \E tag \in TagPool :
          product' = Product(Append(product.tags, tag))
    /\ before' = errors
    /\ tpc' = "retagged"
    /\ UNCHANGED errors
    /\ UNCHANGED tagFrame

NextTags ==
    \/ ValidateProduct
    \/ Retag

SpecTags == InitTags /\ [][NextTags]_vars

-----------------------------------------------------------------------------
(* upsertUrlRedirect on its own: a caller upserts one redirect after another *)

MaxUpserts == 3

UpsertTargets == {<<"collections", "all">>, <<"collections", "shop-all-what-you-need">>}

InitUpsert ==
    /\ urlRedirects \in RedirectTables
    /\ lastUpsert = NoUpsert
    /\ upserted = [p \in UpsertPaths |-> <<>>]
    /\ upserts = 0
    /\ IdleRules
    /\ IdleDiff
    /\ IdleTags
    /\ IdleSync

\* await upsertUrlRedirect(path, target); a call that throws leaves no answer
Upsert ==
    /\ upserts < MaxUpserts
    /\ \E path \in UpsertPaths, target \in UpsertTargets, outcome \in Outcomes :
          LET r == upsertUrlRedirect(urlRedirects, path, target, outcome) IN
          /\ urlRedirects' = r.table
          /\ lastUpsert' = [path |-> path, target |-> target, outcome |-> outcome,
                            action |-> r.action, calls |-> r.calls, before |-> urlRedirects]
          /\ upserted' = IF r.action = "error" THEN upserted
                         ELSE [upserted EXCEPT ![path] = target]
    /\ upserts' = upserts + 1
    /\ UNCHANGED upsertFrame

NextUpsert == Upsert

SpecUpsert == InitUpsert /\ [][NextUpsert]_vars

-----------------------------------------------------------------------------
(* Menu differ *)

RECURSIVE LiveNodes(_)
\* every item of a live tree, at any level
LiveNodes(items) ==
    UNION {{items[k]} \cup LiveNodes(items[k].items) : k \in DOMAIN items}

RECURSIVE ConfigNodes(_)
\* every item of a declared tree, at any level
ConfigNodes(items) ==
    UNION {{items[k]} \cup ConfigNodes(items[k].children) : k \in DOMAIN items}

ConfigTitles(items) == {ToLowerCase(n.title) : n \in ConfigNodes(items)}

RECURSIVE NodesBelow(_, _)
\* the items of a declared tree that lie deeper than `levels` levels
NodesBelow(items, levels) ==
    IF levels = 0 THEN ConfigNodes(items)
    ELSE UNION {NodesBelow(items[k].children, levels - 1) : k \in DOMAIN items}

\* the live tree is the declared tree as the store holds it
TreesIdentical ==
    /\ currentMenu.exists
    /\ currentMenu.items = buildMenuItemsInput(configMenu.items, diffIds)

\* C15: when the live tree and the declared tree are identical, the
\* comparison has nothing to add, remove or update and no redirect candidate
C15_IdenticalTreesDiffEmpty ==
    (dpc = "compared" /\ TreesIdentical) => comparison = NoComparison

\* identical trees with a LINK, a nested item and resolved collection targets
C15_Witness ==
    /\ dpc = "compared"
    /\ TreesIdentical
    /\ configMenu.items = MainMenuBoth
    /\ diffIds = AllIds
    /\ comparison = NoComparison

\* C16: every live item whose lowercased title the declared tree lacks is
\* in itemsToRemove, with a redirect candidate to the fallback path when it
\* is a COLLECTION item whose url names a collection; no item whose title
\* the declared tree has is in itemsToRemove
C16_AbsentTitlesRemoved ==
    (dpc = "compared" /\ currentMenu.exists)
        => /\ \A n \in LiveNodes(currentMenu.items) :
                 ToLowerCase(n.title) \notin ConfigTitles(configMenu.items)
                     => /\ \E k \in DOMAIN comparison.itemsToRemove :
                              comparison.itemsToRemove[k] = n
                        /\ (n.type = "COLLECTION" /\ MatchCollectionHandle(n.url) # "")
                              => \E k \in DOMAIN comparison.collectionsToRedirect :
                                    /\ comparison.collectionsToRedirect[k].oldPath
                                         = <<"collections", MatchCollectionHandle(n.url)>>
                                    /\ comparison.collectionsToRedirect[k].newPath
                                         = FallbackPath
           /\ \A k \in DOMAIN comparison.itemsToRemove :
                 ToLowerCase(comparison.itemsToRemove[k].title)
                     \notin ConfigTitles(configMenu.items)

\* C17: an item nested deeper than the third level gets no entry in the
\* comparison
C17_DeepNodesNotDiffed ==
    dpc = "compared"
        => \A n \in NodesBelow(configMenu.items, MaxMenuLevels) :
              /\ \A k \in DOMAIN comparison.itemsToAdd : comparison.itemsToAdd[k] # n
              /\ \A k \in DOMAIN comparison.itemsToUpdate :
                    comparison.itemsToUpdate[k].desired # n

-----------------------------------------------------------------------------
(* Tag validator *)

\* the product has been handed to validateProductTags and errors is the answer
Validated == tpc \in {"validated", "revalidated"}

\* how many tags of the list carry the dimension
TagCount(tags, dimension) ==
    Cardinality({k \in DOMAIN tags : Len(tags[k]) > 1 /\ tags[k][1] = dimension})

\* how many diagnostics of the list are of one of the types
Diagnostics(errs, types) ==
    Cardinality({k \in DOMAIN errs : errs[k].errorType \in types})

MissingRequired == {"missing_pillar", "missing_family", "missing_format", "missing_use"}

DuplicateDimension == {"multiple_pillars", "multiple_families", "multiple_formats"}

\* a tag of the dimension whose value the tagging spec allows
ValidTagOf(tag, dimension) ==
    /\ Len(tag) = 2
    /\ tag[1] = dimension
    /\ tag[2] \in (CASE dimension = "pillar" -> TaggingSpec.allowedPillars
                     [] dimension = "family" -> TaggingSpec.allowedFamilies
                     [] dimension = "format" -> TaggingSpec.allowedFormats
                     [] OTHER -> TaggingSpec.allowedUses)

\* the tag set is exactly two valid pillar tags and one valid family tag
TwoPillarsOneFamily ==
    /\ Len(product.tags) = 3
    /\ Cardinality({k \in DOMAIN product.tags : ValidTagOf(product.tags[k], "pillar")}) = 2
    /\ Cardinality({k \in DOMAIN product.tags : ValidTagOf(product.tags[k], "family")}) = 1

\* C18 as stated: two valid pillar tags and one valid family tag yield exactly
\* one duplicate-dimension diagnostic and no missing-required diagnostic
C18_OneDuplicateNoMissing ==
    (Validated /\ TwoPillarsOneFamily)
        => /\ Diagnostics(errors, DuplicateDimension) = 1
           /\ Diagnostics(errors, MissingRequired) = 0

\* C18: two valid pillar tags and one valid family tag yield exactly one
\* duplicate-dimension diagnostic, which is for pillar, no missing-required
\* diagnostic for pillar or family, one missing-required diagnostic for each of
\* format and use, and nothing else
C18_OneDuplicateMissingFormatAndUse ==
    (Validated /\ TwoPillarsOneFamily)
        => /\ Diagnostics(errors, DuplicateDimension) = 1
           /\ Diagnostics(errors, {"multiple_pillars"}) = 1
           /\ Diagnostics(errors, {"missing_pillar", "missing_family"}) = 0
           /\ Diagnostics(errors, {"missing_format"}) = 1
           /\ Diagnostics(errors, {"missing_use"}) = 1
           /\ Len(errors) = 3

C18_Witness ==
    /\ tpc = "validated"
    /\ TwoPillarsOneFamily
    /\ product.tags[1] # product.tags[2]
    /\ Diagnostics(errors, {"multiple_pillars"}) = 1

\* the dimensions of which a product carries exactly one tag
ExactlyOneDimensions == {"pillar", "family", "format"}

MissingType(dimension) ==
    CASE dimension = "pillar" -> "missing_pillar"
      [] dimension = "family" -> "missing_family"
      [] dimension = "format" -> "missing_format"
      [] OTHER -> "missing_use"

MultipleType(dimension) ==
    CASE dimension = "pillar" -> "multiple_pillars"
      [] dimension = "family" -> "multiple_families"
      [] OTHER -> "multiple_formats"

\* the tag the product was given before it was validated again
AddedTag == product.tags[Len(product.tags)]

\* C19: for pillar, family and format, no tag of the dimension yields exactly
\* one missing diagnostic for it, two or more yield exactly one multiple
\* diagnostic for it, exactly one yields neither, and one more tag of another
\* dimension or of none leaves the diagnostics for the dimension as they were
C19_ExactlyOneCardinality ==
    \A d \in ExactlyOneDimensions :
        /\ Validated =>
              LET n == TagCount(product.tags, d)
                  nMissing == Diagnostics(errors, {MissingType(d)})
                  nMultiple == Diagnostics(errors, {MultipleType(d)})
              IN  /\ n = 0 => nMissing = 1 /\ nMultiple = 0
                  /\ n >= 2 => nMultiple = 1 /\ nMissing = 0
                  /\ n = 1 => nMissing = 0 /\ nMultiple = 0
        /\ (tpc = "revalidated" /\ ~(Len(AddedTag) > 1 /\ AddedTag[1] = d)) =>
              /\ Diagnostics(errors, {MissingType(d)})
                    = Diagnostics(before, {MissingType(d)})
              /\ Diagnostics(errors, {MultipleType(d)})
                    = Diagnostics(before, {MultipleType(d)})

C19_Witness ==
    /\ tpc = "revalidated"
    /\ Len(product.tags) >= 4
    /\ TagCount(product.tags, "pillar") = 2
    /\ TagCount(product.tags, "family") = 1
    /\ TagCount(product.tags, "format") = 0
    /\ AddedTag = PlainTag("sale")
    /\ Diagnostics(errors, {"multiple_pillars"}) = 1
    /\ Diagnostics(errors, {"missing_format"}) = 1
    /\ Diagnostics(errors, {"missing_family", "multiple_families"}) = 0

\* the diagnostic names brand, or quotes a brand tag
AboutBrand(e) ==
    \/ e.errorType \in {"missing_brand", "multiple_brands"}
    \/ \E i \in DOMAIN e.quoted : Len(e.quoted[i]) > 1 /\ e.quoted[i][1] = "brand"

\* a tag set without a brand tag yields no diagnostic for brand
NoBrandNoDiagnostic ==
    (Validated /\ TagCount(product.tags, "brand") = 0)
        => \A k \in DOMAIN errors : ~AboutBrand(errors[k])

\* C20: two or more brand tags yield a duplicate-dimension diagnostic for
\* brand, and no brand tag yields no diagnostic for brand
C20_AtMostOneBrand ==
    /\ (Validated /\ TagCount(product.tags, "brand") >= 2)
          => \E k \in DOMAIN errors : errors[k].errorType = "multiple_brands"
    /\ NoBrandNoDiagnostic

\* a tag of the form dimension:value whose dimension the tagging spec does not know
OfUnknownDimension(tag) ==
    Len(tag) > 1 /\ tag[1] \notin TaggingSpec.allowedDimensions

\* C21: every dimension:value tag with a dimension outside the allowed ones gets
\* an unknown_dimension diagnostic and no unknown_value diagnostic, and only
\* such tags get an unknown_dimension diagnostic
C21_UnknownDimensionKind ==
    Validated =>
        /\ \A i \in DOMAIN product.tags :
              OfUnknownDimension(product.tags[i]) =>
                  /\ \E k \in DOMAIN errors :
                        /\ errors[k].errorType = "unknown_dimension"
                        /\ errors[k].quoted = <<product.tags[i]>>
                  /\ \A k \in DOMAIN errors :
                        errors[k].errorType = "unknown_value"
                            => errors[k].quoted # <<product.tags[i]>>
        /\ \A k \in DOMAIN errors :
              errors[k].errorType = "unknown_dimension"
                  => \A j \in DOMAIN errors[k].quoted :
                        OfUnknownDimension(errors[k].quoted[j])

\* the first half of C21 alone
UnknownDimensionReported ==
    Validated =>
        \A i \in DOMAIN product.tags :
            OfUnknownDimension(product.tags[i]) =>
                \E k \in DOMAIN errors :
                    /\ errors[k].errorType = "unknown_dimension"
                    /\ errors[k].quoted = <<product.tags[i]>>

\* the second half of C21 alone
UnknownDimensionOnlyForSuch ==
    Validated =>
        \A k \in DOMAIN errors :
            errors[k].errorType = "unknown_dimension"
                => \A j \in DOMAIN errors[k].quoted :
                      OfUnknownDimension(errors[k].quoted[j])

-----------------------------------------------------------------------------
(* Executors *)

\* the four result lists of an executor, one after the other
ResultLists(r) == r.created \o r.updated \o r.skipped \o r.errors

Occurrences(s, h) == Cardinality({k \in DOMAIN s : s[k] = h})

\* the first n plans are each in exactly one result list, and nothing else is
Accounted(plans, n) ==
    /\ Len(ResultLists(results)) = n
    /\ \A k \in 1..n : Occurrences(ResultLists(results), plans[k].handle) = 1

\* C22: while an executor runs and when it returns, every plan entry it has
\* come to is in exactly one of created, updated, skipped and errors, whatever
\* failed before it; when the loop ends that is every plan entry
C22_EveryPlanInOneList ==
    /\ pc = "execCollections" => idx <= Len(cplans) + 1 /\ Accounted(cplans, idx - 1)
    /\ pc = "execMenus" => idx <= Len(mplans) + 1 /\ Accounted(mplans, idx - 1)

\* the executor returned; its first entry failed at the store and its second
\* entry was applied
C22_Witness ==
    /\ pc = "execMenus"
    /\ opts.seoSafe
    /\ idx = Len(mplans) + 1
    /\ Len(mplans) = 2
    /\ mplans[1].handle \in Range(results.errors)
    /\ \E k \in DOMAIN mutations : mutations[k] = Call("menuUpdate", mplans[1].handle)
    /\ mplans[2].handle \in Range(results.updated)

\* some change of the list starts with BLOCKED
IsBlockedChangeList(changes) ==
    \E k \in DOMAIN changes : changes[k][1] = "BLOCKED: Missing collections: "

\* the menu executor is at a plan that carries a BLOCKED change
AtBlockedPlan ==
    /\ pc = "execMenus"
    /\ idx <= Len(mplans)
    /\ IsBlockedChangeList(mplans[idx].changes)

\* C23: the executor's step for a blocked menu plan issues no mutating call,
\* leaves the store's menus and redirects as they are and records the menu in
\* errors only
C23_BlockedNeverProceeds ==
    [][AtBlockedPlan =>
          /\ mutations' = mutations
          /\ remoteMenus' = remoteMenus
          /\ redirects' = redirects
          /\ results' = [results EXCEPT !.errors = Append(@, mplans[idx].handle)]]_vars

\* the executor has gone past a blocked plan and then applied another menu
C23_Witness ==
    /\ pc = "execMenus"
    /\ idx = 3
    /\ IsBlockedChangeList(mplans[1].changes)
    /\ results.errors = <<mplans[1].handle>>
    /\ results.updated = <<mplans[2].handle>>

RECURSIVE LinkedHandles(_)
\* the collections that the COLLECTION items of a live tree link
LinkedHandles(items) ==
    IF items = <<>> THEN {}
    ELSE LET item == Head(items) IN
         (IF item.type = "COLLECTION" /\ item.url # <<>> THEN {item.url[2]} ELSE {})
             \cup LinkedHandles(item.items)
             \cup LinkedHandles(Tail(items))

RECURSIVE TargetedHandles(_)
\* the collections that the COLLECTION items of a declared tree target
TargetedHandles(items) ==
    IF items = <<>> THEN {}
    ELSE LET item == Head(items) IN
         (IF item.type = "COLLECTION" THEN {item.target_collection_handle} ELSE {})
             \cup TargetedHandles(item.children)
             \cup TargetedHandles(Tail(items))

\* the links the update of the menu at idx drops
DroppedLinks ==
    LinkedHandles(remoteMenus[mplans[idx].handle].items)
        \ TargetedHandles(cfgMenus[FindByHandle(cfgMenus, mplans[idx].handle)].items)

\* the step of the seo-safe executor that issues the menu update call
SeoSafeUpdateStep ==
    /\ pc = "execMenus"
    /\ idx <= Len(mplans)
    /\ opts.seoSafe
    /\ opts.createRedirects
    /\ Len(mutations') > Len(mutations)
    /\ mutations'[Len(mutations')] = Call("menuUpdate", mplans[idx].handle)

\* the upsert of /collections/<handle> was attempted: the table holds the
\* redirect to the default target, or the attempt is among the redirect errors
Attempted(handle, table, redirectErrors) ==
    \/ \E k \in DOMAIN table :
          /\ table[k].path = <<"collections", handle>>
          /\ table[k].target = RedirectTarget(cli)
    \/ <<"collections", handle>> \in Range(redirectErrors)

\* C24: when the seo-safe executor issues the update of a live menu with
\* redirects enabled, the upsert of every collection link the update drops
\* has been attempted, and the update is the last call of the step
C24_RedirectsBeforeUpdate ==
    [][SeoSafeUpdateStep =>
          /\ \A h \in DroppedLinks : Attempted(h, redirects', results'.redirectErrors)
          /\ \A k \in (Len(mutations) + 1)..(Len(mutations') - 1) :
                mutations'[k].op \in {"urlRedirectCreate", "urlRedirectUpdate"}]_vars

\* a menu was updated after the redirects of the two links it dropped were
\* written
C24_Witness ==
    /\ pc = "execMenus"
    /\ opts.seoSafe
    /\ opts.createRedirects
    /\ Len(mutations) >= 3
    /\ mutations[Len(mutations)] = Call("menuUpdate", "footer")
    /\ mutations[Len(mutations) - 1] = Call("urlRedirectCreate", <<"collections", "pipes">>)
    /\ mutations[Len(mutations) - 2].key = <<"collections", "bongs">>
    /\ "footer" \in Range(results.updated)

-----------------------------------------------------------------------------
(* Redirect upserts *)

\* the table holds the redirect path -> target
Holds(t, path, target) ==
    \E k \in DOMAIN t : t[k].path = path /\ t[k].target = target

\* C25: after any sequence of upserts the table holds at most one redirect per
\* path, the redirect of every upserted path targets what the last upsert of
\* the path that returned was given, and an upsert of the target the table
\* already holds for the path answers unchanged and writes nothing
C25_UpsertKeepsPathsUnique ==
    /\ \A j, k \in DOMAIN urlRedirects :
          urlRedirects[j].path = urlRedirects[k].path => j = k
    /\ \A p \in UpsertPaths :
          upserted[p] # <<>> => Holds(urlRedirects, p, upserted[p])
    /\ (/\ upserts > 0
        /\ lastUpsert.outcome # "lookupThrew"
        /\ Holds(lastUpsert.before, lastUpsert.path, lastUpsert.target))
          => /\ lastUpsert.action = "unchanged"
             /\ lastUpsert.calls = <<>>
             /\ urlRedirects = lastUpsert.before

\* a path upserted before was upserted again with another target
C25_Witness ==
    /\ upserts >= 2
    /\ lastUpsert.action = "updated"
    /\ upserted[lastUpsert.path] = lastUpsert.target
    /\ ~Holds(lastUpsert.before, lastUpsert.path, lastUpsert.target)
    /\ Len(urlRedirects) = Len(lastUpsert.before)
    /\ Len(urlRedirects) >= 2

-----------------------------------------------------------------------------
(* Convergence *)

\* the run follows a clean apply run of the same command line, and none of its
\* own remote calls has thrown
Replanning ==
    /\ runNo >= 2
    /\ cli \in {"wyn-sync-collections", "wyn-sync-menus", "wyn-seo-safe-sync"}
    /\ faults = 0

\* re-planning yields noop for every collection
CollectionsConverge ==
    Replanning => \A k \in DOMAIN cplans : cplans[k].action = "noop"

\* re-planning yields noop for every collection that is not MANUAL with rules
SmartCollectionsConverge ==
    Replanning =>
        \A k \in DOMAIN cplans :
            cfgCollections[k].type = "SMART" => cplans[k].action = "noop"

\* re-planning yields noop for every menu
MenusConverge ==
    Replanning => \A k \in DOMAIN mplans : mplans[k].action = "noop"

\* C26: after a clean apply run, planning again with the same configuration
\* yields noop for every collection and every menu
C26_ReplanIsNoop ==
    CollectionsConverge /\ MenusConverge

-----------------------------------------------------------------------------
(* Failed updates and self-redirects *)

\* the step of the seo-safe executor whose menu update call fails: the call is
\* issued and the menu is recorded in errors
FailedUpdateStep ==
    /\ pc = "execMenus"
    /\ idx <= Len(mplans)
    /\ opts.seoSafe
    /\ Len(mutations') > Len(mutations)
    /\ mutations'[Len(mutations')] = Call("menuUpdate", mplans[idx].handle)
    /\ results'.errors = Append(results.errors, mplans[idx].handle)

\* C27: when the update of a menu fails in the seo-safe executor, the step has
\* created or retargeted no redirect
C27_FailedUpdateLeavesNoRedirect ==
    [][FailedUpdateStep => redirects' = redirects]_vars

\* a failed update leaves the menu itself as it was
FailedUpdateKeepsMenu ==
    [][FailedUpdateStep => remoteMenus' = remoteMenus]_vars

\* the table holds no redirect from a path to itself
NoSelfRedirect(t) == \A k \in DOMAIN t : t[k].path # t[k].target

\* the menu executors write no self-redirect
ExecutorsWriteNoSelfRedirect ==
    cli # "wyn-menu-audit" => NoSelfRedirect(redirects)

\* the consolidation writes no self-redirect
ConsolidationWritesNoSelfRedirect ==
    cli = "wyn-menu-audit" => NoSelfRedirect(redirects)

\* C28: no redirect the store holds after any step of any program targets its
\* own source path (the store holds none at the start)
C28_NoSelfRedirect ==
    NoSelfRedirect(store0.redirects) => NoSelfRedirect(redirects)

-----------------------------------------------------------------------------
(* Menu mutations and resolved collections *)

\* the step of a menu executor that issues menuCreate or menuUpdate for the
\* plan at idx
MenuCallStep ==
    /\ pc = "execMenus"
    /\ idx <= Len(mplans)
    /\ Len(mutations') > Len(mutations)
    /\ mutations'[Len(mutations')] \in
           {Call("menuCreate", mplans[idx].handle), Call("menuUpdate", mplans[idx].handle)}

\* the items declared for the menu of the plan at k
DeclaredItems(k) == cfgMenus[FindByHandle(cfgMenus, mplans[k].handle)].items

RECURSIVE HasBareCollectionItem(_)
\* some COLLECTION item of the tree sent carries no resourceId
HasBareCollectionItem(items) ==
    IF items = <<>> THEN FALSE
    ELSE \/ Head(items).type = "COLLECTION" /\ Head(items).resourceId = ""
         \/ HasBareCollectionItem(Head(items).items)
         \/ HasBareCollectionItem(Tail(items))

\* C29: whenever an executor issues menuCreate or menuUpdate, every collection
\* handle the declared menu targets is a key of the map passed along, and no
\* COLLECTION item of the tree sent lacks a resourceId
C29_MutationsCarryResourceIds ==
    [][MenuCallStep =>
          /\ \A h \in TargetedHandles(DeclaredItems(idx)) : h \in DOMAIN idByHandle
          /\ ~HasBareCollectionItem(buildMenuItemsInput(DeclaredItems(idx), idByHandle))]_vars

\* a menu that targets collections was created or updated in a run in which
\* another menu was held back for a collection the store lacks
C29_Witness ==
    /\ pc = "execMenus"
    /\ \E k \in 1..(idx - 1) :
          /\ k \in DOMAIN mplans
          /\ TargetedHandles(DeclaredItems(k)) # {}
          /\ \E j \in DOMAIN mutations :
                mutations[j] \in {Call("menuCreate", mplans[k].handle),
                                  Call("menuUpdate", mplans[k].handle)}
    /\ \E k \in DOMAIN mplans : IsBlocked(mplans[k])
    /\ missing # <<>>

-----------------------------------------------------------------------------
(* Redirect candidates of the differ *)

\* the candidates of the given reason leave alone the collections the declared
\* menu still targets
CandidatesSpareDeclared(reason) ==
    dpc = "compared" =>
        \A k \in DOMAIN comparison.collectionsToRedirect :
            LET candidate == comparison.collectionsToRedirect[k] IN
            candidate.reason = reason =>
                candidate.oldPath[2] \notin TargetedHandles(configMenu.items)

RemovedCandidatesSpareDeclared == CandidatesSpareDeclared("removed")

ChangedCandidatesSpareDeclared == CandidatesSpareDeclared("changed")

\* C30: no redirect candidate of compareMenuWithConfig has a source path
\* /collections/<handle> whose handle a COLLECTION item of the declared menu
\* targets
C30_NoCandidateForDeclaredTarget ==
    RemovedCandidatesSpareDeclared /\ ChangedCandidatesSpareDeclared

====
